---- MODULE Spec2Model ----
(***************************************************************************)
(* A model of the graph-construction engine of the state-machine library:  *)
(* the byte builder MutableStateMachine<void> (regex-backend/builder.h)    *)
(* and the generic builder internal::StateMachine                          *)
(* (regex-backend/state_machine_internal/builder.h).                       *)
(*                                                                         *)
(* A store is a sequence of nodes; handle h designates nodes[h], handle 0  *)
(* is "no transition".  The byte node has one slot per character and one   *)
(* EOF slot (128 in the code).  The model keeps NumSyms characters         *)
(* (0 .. NumSyms-1, standing for distinct non-NUL ASCII characters) and    *)
(* the EOF slot, which gets index NumSyms.                                 *)
(***************************************************************************)
EXTENDS Integers, Sequences, FiniteSets, TLC

VARIABLES m_nodes,    \* byte builder: _m_nodes
          m_cursors,  \* byte builder: m_cursors
          last,       \* the builder call that ran last
          nops,       \* number of builder calls made so far
          prog,       \* the calls made so far (recorded by the program-shaped specifications)
          res,        \* result of the last matching call
          returned,   \* FALSE once a builder call has failed to return
          sm_nodes,   \* generic builder: m_nodes
          sm_cursors, \* generic builder: construction_state.cursors
          on_conflict,\* generic builder: construction_state.on_conflict
          sm_failed,  \* generic builder: a call ended in PANIC or in undefined behaviour
          vm_nodes,   \* valued byte builder MutableStateMachine<Value_T>: _m_nodes
          vm_cursors, \* valued byte builder: m_cursors
          vm_on_conflict, \* valued byte builder: on_conflict
          vm_failed,  \* valued byte builder: a call ended in PANIC
          nd          \* one node of each shape of the generic builder, see NdNew

sm_vars == <<sm_nodes, sm_cursors, on_conflict, sm_failed>>

vm_vars == <<vm_nodes, vm_cursors, vm_on_conflict, vm_failed>>

vars == <<m_nodes, m_cursors, last, nops, prog, res, returned, sm_nodes, sm_cursors, on_conflict,
          sm_failed, vm_nodes, vm_cursors, vm_on_conflict, vm_failed, nd>>

----------------------------------------------------------------------------
(* Bounds of the model *)

NumSyms == 2      \* characters of the alphabet
MaxNodes == 7     \* the free-form specification explores stores of at most MaxNodes nodes
NodeCap == 14     \* the program-shaped specifications explore stores below NodeCap nodes
MaxLits == 3      \* literals per program in the literal specification
MaxOps == 4       \* builder calls per program in the free-form specification
MaxSeqLen == 2    \* longest argument of match_sequence
MaxInput == 4     \* longest input handed to a matching call

Chars == 0 .. (NumSyms - 1)
EOFSlot == NumSyms
Slots == 0 .. EOFSlot

RECURSIVE SeqsUpTo(_, _)
SeqsUpTo(S, n) ==
  IF n = 0 THEN {<<>>}
  ELSE LET shorter == SeqsUpTo(S, n - 1)
       IN  shorter \cup {Append(w, c) : w \in {x \in shorter : Len(x) = n - 1}, c \in S}

InSeq(s, x) == \E i \in DOMAIN s : s[i] = x

----------------------------------------------------------------------------
(* The byte node, StateMachineNode<void> *)

NullNode == [transitions |-> [k \in Slots |-> 0], terminal |-> FALSE, consume_char |-> TRUE]

can_exit(n) == n.terminal

is_null(n) == ~n.terminal /\ \A k \in Slots : n.transitions[k] = 0

nullify(n) == [n EXCEPT !.transitions = [k \in Slots |-> 0], !.terminal = FALSE]

SetTransition(nodes, from, k, to) == [nodes EXCEPT ![from].transitions[k] = to]

(* MutableStateMachine(): the root is pushed, the cursor list is {1} *)
NewMachine == [nodes |-> <<NullNode>>, cursors |-> <<1>>, returns |-> TRUE]

----------------------------------------------------------------------------
(* Primitive operations of the byte builder.  A machine is a record       *)
(* [nodes, cursors, returns]; every operator gives the machine after the  *)
(* call, returns = FALSE when the call does not return.                   *)

\* new_node() appends a zero-filled node; its handle is the new size
new_node(nodes) == Append(nodes, NullNode)

\* a terminal() that marks every node of the store accepting, not only the cursors
every_node_terminal(m) ==
  [m EXCEPT !.nodes = [h \in DOMAIN m.nodes |-> [m.nodes[h] EXCEPT !.terminal = TRUE]]]

make_cursor_terminal(m) ==
  [m EXCEPT !.nodes = [h \in DOMAIN m.nodes |->
                         IF InSeq(m.cursors, h) THEN [m.nodes[h] EXCEPT !.terminal = TRUE]
                         ELSE m.nodes[h]]]

terminal(m) == make_cursor_terminal(m)

\* a goback() that leaves the cursors where they are
goback_stays(m) == m

goback(m) == [m EXCEPT !.cursors = <<1>>]

\* a cursor_transition that allocates a node on every call and points every
\* cursor to it, whether or not the cursor already had a destination
cursor_transition_always_fresh(m, child) ==
  LET goes_to_idx == Len(m.nodes) + 1
  IN  [nodes   |-> [h \in 1 .. goes_to_idx |->
                      IF h = goes_to_idx THEN NullNode
                      ELSE IF InSeq(m.cursors, h)
                           THEN [m.nodes[h] EXCEPT !.transitions[child] = goes_to_idx]
                           ELSE m.nodes[h]],
       cursors |-> <<goes_to_idx>>,
       returns |-> TRUE]

cursor_transition(m, child) ==
  LET without == SelectSeq(m.cursors, LAMBDA c : m.nodes[c].transitions[child] = 0)
      with    == SelectSeq(m.cursors, LAMBDA c : m.nodes[c].transitions[child] # 0)
      goes_to_idx == Len(m.nodes) + 1
      nodes1 == IF Len(without) > 0
                THEN [h \in 1 .. goes_to_idx |->
                        IF h = goes_to_idx THEN NullNode
                        ELSE IF InSeq(without, h)
                             THEN [m.nodes[h] EXCEPT !.transitions[child] = goes_to_idx]
                             ELSE m.nodes[h]]
                ELSE m.nodes
      fresh == IF Len(without) > 0 THEN <<goes_to_idx>> ELSE <<>>
  IN  [nodes   |-> nodes1,
       cursors |-> fresh \o [i \in DOMAIN with |-> m.nodes[with[i]].transitions[child]],
       returns |-> TRUE]

RECURSIVE match_sequence(_, _)
match_sequence(m, seq) ==
  IF seq = <<>> THEN m
  ELSE match_sequence(cursor_transition(m, Head(seq)), Tail(seq))

\* match_any_of / match_any: one cursor_transition per choice, each from the
\* initial cursors; the cursors of all choices are concatenated
RECURSIVE any_of_loop(_, _, _, _)
any_of_loop(m, initial_cursors, choices, new_cursors) ==
  IF choices = <<>> THEN [m EXCEPT !.cursors = new_cursors]
  ELSE LET m1 == cursor_transition([m EXCEPT !.cursors = initial_cursors], Head(choices))
       IN  any_of_loop(m1, initial_cursors, Tail(choices), new_cursors \o m1.cursors)

match_any_of(m, choices) == any_of_loop(m, m.cursors, choices, <<>>)

match_any(m) == any_of_loop(m, m.cursors, [i \in 1 .. (EOFSlot + 1) |-> i - 1], <<>>)

match_eof(m) == cursor_transition(m, EOFSlot)

match_default(m) ==
  LET default_node_idx == Len(m.nodes) + 1
      grown == new_node(m.nodes)
  IN  [nodes |-> [h \in DOMAIN grown |->
                    IF InSeq(m.cursors, h)
                    THEN [grown[h] EXCEPT !.transitions =
                            [k \in Slots |-> IF grown[h].transitions[k] = 0
                                             THEN default_node_idx
                                             ELSE grown[h].transitions[k]]]
                    ELSE grown[h]],
       cursors |-> <<default_node_idx>>,
       returns |-> TRUE]

----------------------------------------------------------------------------
(* Non-ambiguous linking, byte builder *)

\* "fix self-references": the loop `for (auto t : node.transitions)` binds t
\* by value, so the assignment t = nidx never reaches the node
fix_self_references(node, tzn, nidx) == node

\* node.terminal is raised when the target is terminal
propagate_terminal(node, to_node) ==
  IF to_node.terminal THEN [node EXCEPT !.terminal = TRUE] ELSE node

\* A write through `node` (the reference new_node() returned) after the store
\* has been relocated by a later push_back goes to the released buffer.
write_through_node(nodes, nidx, ch, val, stale) ==
  IF stale THEN nodes ELSE SetTransition(nodes, nidx, ch, val)

\* make_nonambiguous_link returns [nodes, tracked, returns].
\*   reloc: whether growing the store relocates it (see write_through_node).
\*   path:  the pairs <<tzn, to>> of the calls this call is nested in.  A
\*          nested call links from a fresh clone, whose slot is a copy of the
\*          slot of tzn, to the destination of `to`; the nodes that existed
\*          before the outermost call are not written while it runs.  A call
\*          that meets its own pair on the path therefore repeats the calls in
\*          between without end: the code has no such test and recurses until
\*          the stack is exhausted, which the model records as returns = FALSE.
RECURSIVE make_nonambiguous_link(_, _, _, _, _, _, _), link_copy_in(_, _, _, _, _, _, _, _, _, _)

make_nonambiguous_link(nodes, from, transition_char, to, watch_nodes, reloc, path) ==
  LET tzn == nodes[from].transitions[transition_char] IN
  IF tzn = 0
  THEN [nodes |-> SetTransition(nodes, from, transition_char, to), tracked |-> <<>>,
        returns |-> TRUE]
  ELSE IF <<tzn, to>> \in path
  THEN [nodes |-> nodes, tracked |-> <<>>, returns |-> FALSE]
  ELSE
    LET nidx == Len(nodes) + 1
        node == propagate_terminal(fix_self_references(nodes[tzn], tzn, nidx), nodes[to])
        tracked0 == IF InSeq(watch_nodes, to) \/ InSeq(watch_nodes, tzn) THEN <<nidx>> ELSE <<>>
        r == link_copy_in(Append(nodes, node), nidx, tzn, to, watch_nodes, reloc,
                          path \cup {<<tzn, to>>}, 0, tracked0, FALSE)
    IN  IF r.returns
        THEN [nodes |-> SetTransition(r.nodes, from, transition_char, nidx),
              tracked |-> r.tracked, returns |-> TRUE]
        ELSE r

\* the loop "copy in the target node", from slot ch on
link_copy_in(nodes, nidx, tzn, to, watch_nodes, reloc, path, ch, tracked, stale) ==
  IF ch > EOFSlot THEN [nodes |-> nodes, tracked |-> tracked, returns |-> TRUE]
  ELSE
    LET transition == nodes[to].transitions[ch]
        mine == nodes[nidx].transitions[ch]
    IN
    IF mine = nidx /\ transition = 0
    THEN link_copy_in(write_through_node(nodes, nidx, ch, tzn, stale),
                      nidx, tzn, to, watch_nodes, reloc, path, ch + 1, tracked, stale)
    ELSE IF transition = to /\ mine = 0
    THEN link_copy_in(write_through_node(nodes, nidx, ch, tzn, stale),
                      nidx, tzn, to, watch_nodes, reloc, path, ch + 1, tracked, stale)
    ELSE IF transition = to /\ mine = nidx
    THEN link_copy_in(nodes, nidx, tzn, to, watch_nodes, reloc, path, ch + 1, tracked, stale)
    ELSE IF transition = 0
    THEN link_copy_in(nodes, nidx, tzn, to, watch_nodes, reloc, path, ch + 1, tracked, stale)
    ELSE
      LET r == make_nonambiguous_link(nodes, nidx, ch, transition, watch_nodes, reloc, path)
      IN  IF r.returns
          THEN link_copy_in(r.nodes, nidx, tzn, to, watch_nodes, reloc, path, ch + 1,
                            tracked \o r.tracked,
                            stale \/ (reloc /\ Len(r.nodes) > Len(nodes)))
          ELSE r

\* copy_in_regex_except_root: the non-root nodes of regex, handles shifted by
\* base_index; returns [nodes, terminals, base_index] (mappings[i] = i + base_index)
copy_in_regex_except_root(nodes, regex) ==
  LET base_index == Len(nodes) - 1
      shifted(n) == [transitions |-> [k \in Slots |->
                                        IF n.transitions[k] = 0 THEN 0
                                        ELSE n.transitions[k] + base_index],
                     terminal |-> FALSE,
                     consume_char |-> n.consume_char]
      idxs == [i \in 1 .. (Len(regex.nodes) - 1) |-> i + 1]
  IN  [nodes |-> nodes \o [i \in DOMAIN idxs |-> shifted(regex.nodes[idxs[i]])],
       terminals |-> [i \in DOMAIN SelectSeq(idxs, LAMBDA h : regex.nodes[h].terminal) |->
                        SelectSeq(idxs, LAMBDA h : regex.nodes[h].terminal)[i] + base_index],
       base_index |-> base_index]

\* the loops of merge_regex_into_machine: cursor i, slot ch
RECURSIVE merge_links(_, _, _, _, _, _, _)
merge_links(nodes, terminals, cursors, new_root_transitions, i, ch, reloc) ==
  IF i > Len(cursors) THEN [nodes |-> nodes, terminals |-> terminals, returns |-> TRUE]
  ELSE IF ch > EOFSlot
  THEN merge_links(nodes, terminals, cursors, new_root_transitions, i + 1, 0, reloc)
  ELSE IF new_root_transitions[ch] = 0
  THEN merge_links(nodes, terminals, cursors, new_root_transitions, i, ch + 1, reloc)
  ELSE LET r == make_nonambiguous_link(nodes, cursors[i], ch, new_root_transitions[ch],
                                       terminals, reloc, {})
       IN  IF r.returns
           THEN merge_links(r.nodes, terminals \o r.tracked, cursors, new_root_transitions,
                            i, ch + 1, reloc)
           ELSE [nodes |-> r.nodes, terminals |-> terminals, returns |-> FALSE]

\* a builder call returns the machine it leaves and whether it returned at all
merge_regex_into_machine(m, regex, reloc) ==
  LET result == copy_in_regex_except_root(m.nodes, regex)
      new_root_transitions ==
        [k \in Slots |-> IF regex.nodes[1].transitions[k] = 0 THEN 0
                         ELSE regex.nodes[1].transitions[k] + result.base_index]
      r == merge_links(result.nodes, result.terminals, m.cursors, new_root_transitions, 1, 0, reloc)
  IN  [nodes |-> r.nodes, cursors |-> r.terminals, returns |-> r.returns]

match(m, pattern, reloc) == merge_regex_into_machine(m, pattern, reloc)

match_optionally(m, pattern, reloc) ==
  LET merged == merge_regex_into_machine(m, pattern, reloc)
  IN  [merged EXCEPT !.cursors = merged.cursors \o m.cursors]

\* the two link loops of match_many_optionally: from each handle of `froms`,
\* every root transition of the pattern, to the copy made by
\* copy_in_regex_except_root; returns [nodes, returns]
RECURSIVE cycle_links(_, _, _, _, _, _, _)
cycle_links(nodes, froms, pattern_root, base_index, i, ch, reloc) ==
  IF i > Len(froms) THEN [nodes |-> nodes, returns |-> TRUE]
  ELSE IF ch > EOFSlot
  THEN cycle_links(nodes, froms, pattern_root, base_index, i + 1, 0, reloc)
  ELSE IF pattern_root.transitions[ch] = 0
  THEN cycle_links(nodes, froms, pattern_root, base_index, i, ch + 1, reloc)
  ELSE LET r == make_nonambiguous_link(nodes, froms[i], ch,
                                       pattern_root.transitions[ch] + base_index,
                                       <<>>, reloc, {})
       IN  IF r.returns
           THEN cycle_links(r.nodes, froms, pattern_root, base_index, i, ch + 1, reloc)
           ELSE [nodes |-> r.nodes, returns |-> FALSE]

match_many_optionally(m, pattern, reloc) ==
  LET cursors_before == m.cursors
      merged == merge_regex_into_machine(m, pattern, reloc)
      regex_terminals == merged.cursors
      copied == copy_in_regex_except_root(merged.nodes, pattern)
      cycled == cycle_links(copied.nodes, copied.terminals, pattern.nodes[1],
                            copied.base_index, 1, 0, reloc)
      entered == cycle_links(cycled.nodes, regex_terminals, pattern.nodes[1],
                             copied.base_index, 1, 0, reloc)
  IN  IF ~merged.returns THEN merged
      ELSE IF ~cycled.returns
      THEN [nodes |-> cycled.nodes, cursors |-> m.cursors, returns |-> FALSE]
      ELSE [nodes |-> entered.nodes,
            cursors |-> IF entered.returns
                        THEN regex_terminals \o cursors_before \o copied.terminals
                        ELSE m.cursors,
            returns |-> entered.returns]

match_many(m, pattern, reloc) ==
  LET first == match(m, pattern, reloc)
  IN  IF first.returns THEN match_many_optionally(first, pattern, reloc) ELSE first

----------------------------------------------------------------------------
(* The optimizer of the byte builder *)

\* the comparison of remove_duplicates_once: equal flags, and every slot
\* equal or self-referring on both sides
is_duplicate(node, node_idx, other, other_idx) ==
  /\ node.consume_char = other.consume_char
  /\ node.terminal = other.terminal
  /\ \A i \in Slots :
       LET ntzn == node.transitions[i]
           otzn == other.transitions[i]
           are_both_self_referring == otzn = other_idx /\ ntzn = node_idx
       IN  ~(ntzn # otzn /\ ~are_both_self_referring)

\* every transition to old_idx now goes to new_idx, and old_idx is nullified
fuse(nodes, old_idx, new_idx) ==
  [h \in DOMAIN nodes |->
     IF h = old_idx THEN nullify(nodes[h])
     ELSE [nodes[h] EXCEPT !.transitions =
             [k \in Slots |-> IF nodes[h].transitions[k] = old_idx THEN new_idx
                              ELSE nodes[h].transitions[k]]]]

\* std::find_if over the nodes before node_idx, the root included: the first
\* handle that compares equal, or 0
find_duplicate(nodes, node_idx) ==
  LET hits == {h \in 1 .. (node_idx - 1) : is_duplicate(nodes[node_idx], node_idx, nodes[h], h)}
  IN  IF hits = {} THEN 0 ELSE CHOOSE h \in hits : \A g \in hits : h <= g

\* one reverse pass, from handle node_idx down to 2; returns [nodes, removed]
RECURSIVE remove_duplicates_from(_, _, _)
remove_duplicates_from(nodes, node_idx, has_removed_dup) ==
  IF node_idx < 2 THEN [nodes |-> nodes, removed |-> has_removed_dup]
  ELSE IF is_null(nodes[node_idx])
  THEN remove_duplicates_from(nodes, node_idx - 1, has_removed_dup)
  ELSE LET other == find_duplicate(nodes, node_idx)
       IN  IF other # 0 /\ ~is_null(nodes[other])
           THEN remove_duplicates_from(fuse(nodes, other, node_idx), node_idx - 1, TRUE)
           ELSE remove_duplicates_from(nodes, node_idx - 1, has_removed_dup)

remove_duplicates_once(nodes) == remove_duplicates_from(nodes, Len(nodes), FALSE)

RECURSIVE remove_duplicates(_)
remove_duplicates(nodes) ==
  LET r == remove_duplicates_once(nodes)
  IN  IF r.removed THEN remove_duplicates(r.nodes) ELSE r.nodes

\* the handles reachable from the root
RECURSIVE reach_from(_, _)
reach_from(nodes, seen) ==
  LET more == seen \cup ({nodes[h].transitions[k] : h \in seen, k \in Slots} \ {0})
  IN  IF more = seen THEN seen ELSE reach_from(nodes, more)

reachables(nodes) == reach_from(nodes, {1})

\* nullify_orphans computes the reachable set and then changes nothing: its
\* last loop has an empty body (the nullify() call is commented out)
nullify_orphans(nodes) == nodes

\* remove_blanks: the root and the non-null nodes, renumbered in store order;
\* a transition to a dropped node becomes 0
remove_blanks(nodes) ==
  LET kept == SelectSeq([h \in DOMAIN nodes |-> h], LAMBDA h : ~is_null(nodes[h]) \/ h = 1)
      mappings == [h \in DOMAIN nodes |->
                     IF InSeq(kept, h) THEN CHOOSE i \in DOMAIN kept : kept[i] = h ELSE 0]
  IN  [i \in DOMAIN kept |->
         [nodes[kept[i]] EXCEPT !.transitions =
            [k \in Slots |-> IF nodes[kept[i]].transitions[k] = 0 THEN 0
                             ELSE mappings[nodes[kept[i]].transitions[k]]]]]

optimize(m) ==
  [nodes |-> remove_blanks(nullify_orphans(remove_duplicates(m.nodes))), cursors |-> <<1>>,
   returns |-> TRUE]

\* operator== of two machines: same size and equal node at every index
machines_equal(a, b) ==
  /\ Len(a.nodes) = Len(b.nodes)
  /\ \A i \in DOMAIN a.nodes :
       /\ a.nodes[i].terminal = b.nodes[i].terminal
       /\ a.nodes[i].transitions = b.nodes[i].transitions

----------------------------------------------------------------------------
(* Matching, byte builder.  An input is a sequence of characters (the     *)
(* terminating NUL is not part of it).  A pointer into the input is the   *)
(* position of the character it points to, 1 for the first; 0 is nullptr. *)

nullptr == 0

\* the walk of matches<FILEMODE>: at character i, at node `node`
RECURSIVE matches_from(_, _, _, _)
matches_from(nodes, s, i, node) ==
  IF i > Len(s) THEN can_exit(nodes[node])
  ELSE LET tzn == nodes[node].transitions[s[i]]
       IN  IF tzn = 0 THEN FALSE ELSE matches_from(nodes, s, i + 1, tzn)

matches(nodes, s) == matches_from(nodes, s, 1, 1)

\* a file-mode walk that stops at the last character, without the EOF transition
matches_filemode_no_eof(nodes, s) == matches_from(nodes, s, 1, 1)

matches_filemode(nodes, s) == matches_from(nodes, Append(s, EOFSlot), 1, 1)

\* the walk shared by lookup and find_first: c points to the next character,
\* n is the current node, last_val points to the character that led to the
\* last accepting node
RECURSIVE walk_longest(_, _, _, _, _)
walk_longest(nodes, s, c, n, last_val) ==
  IF c > Len(s) THEN last_val
  ELSE LET idx == nodes[n].transitions[s[c]]
       IN  IF idx = 0 THEN last_val
           ELSE walk_longest(nodes, s, c + 1, idx,
                             IF can_exit(nodes[idx]) THEN c ELSE last_val)

lookup(nodes, s) == [end |-> walk_longest(nodes, s, 1, 1, nullptr)]

RECURSIVE find_first_from(_, _, _)
find_first_from(nodes, s, ss) ==
  IF ss > Len(s) THEN [begin |-> nullptr, end |-> nullptr]
  ELSE LET last_value_ptr == walk_longest(nodes, s, ss, 1, nullptr)
       IN  IF last_value_ptr # nullptr
           THEN [begin |-> ss, end |-> last_value_ptr]
           ELSE find_first_from(nodes, s, ss + 1)

\* a find_first whose search starts at the second character of the input
find_first_skipping(nodes, s) == find_first_from(nodes, s, 2)

find_first(nodes, s) == find_first_from(nodes, s, 1)

\* find_many: the search restarts at cur = result.end.  When result.end = cur
\* the next iteration repeats this one and the loop never ends; the model
\* stops there and reports it in `loops`.
RECURSIVE find_many_from(_, _, _, _)
find_many_from(nodes, s, cur, return_value) ==
  IF cur > Len(s) THEN [ranges |-> return_value, loops |-> FALSE]
  ELSE LET result == find_first_from(nodes, s, cur)
       IN  IF result.begin = nullptr THEN [ranges |-> return_value, loops |-> FALSE]
           ELSE IF result.end = cur
                THEN [ranges |-> Append(return_value, result), loops |-> TRUE]
                ELSE find_many_from(nodes, s, result.end, Append(return_value, result))

find_many(nodes, s) == find_many_from(nodes, s, 1, <<>>)

----------------------------------------------------------------------------
(* The generic builder, internal::StateMachine, as a regex builder over    *)
(* char: a node has the value slots, the EOF slot and the default slot,    *)
(* and an optional accepting value that carries back_by.  A machine is a   *)
(* record [nodes, cursors, on_conflict, failed]; failed is raised by a     *)
(* call that ends in PANIC or whose behaviour is undefined.                *)

DefSlot == EOFSlot + 1
SmSlots == 0 .. DefSlot

\* std::optional<Node_Value<void>>: <<>> is "no value", <<b>> a value with back_by = b
NoValue == <<>>
ValueOf(back_by) == <<back_by>>

\* StateMachineNode(): transitions.fill(0), no value
SmNode == [transitions |-> [k \in SmSlots |-> 0], value |-> NoValue]

sm_is_null(n) == n.value = NoValue /\ \A k \in SmSlots : n.transitions[k] = 0

sm_nullify(n) == [n EXCEPT !.value = NoValue, !.transitions = [k \in SmSlots |-> 0]]

\* StateMachine(): the root is pushed, cursors = {1}, on_conflict = Error
SmNew == [nodes |-> <<SmNode>>, cursors |-> <<1>>, on_conflict |-> "Error", failed |-> FALSE]

sm_root(m) == [m EXCEPT !.cursors = <<1>>]

conflict(m, ca) == [m EXCEPT !.on_conflict = ca]

has_cursor(cursors, index) == InSeq(cursors, index)

\* get_node(index) asserts index # 0 and index <= size; a call that would
\* hand it a cursor outside the store stops there
get_node_asserts(m) ==
  \E i \in DOMAIN m.cursors : m.cursors[i] = 0 \/ m.cursors[i] > Len(m.nodes)

is_deletable_node(nodes, cursors, index) ==
  /\ index # 1
  /\ sm_is_null(nodes[index])
  /\ ~has_cursor(cursors, index)

\* the cursor loop of match_default, cursor i; returns [nodes, new_cursors, errors]
RECURSIVE match_default_loop(_, _, _, _, _, _, _)
match_default_loop(nodes, cursors, policy, default_node_idx, i, new_cursors, errors) ==
  IF i > Len(cursors) THEN [nodes |-> nodes, new_cursors |-> new_cursors, errors |-> errors]
  ELSE LET deflt == nodes[cursors[i]].transitions[DefSlot]
           written == [nodes EXCEPT ![cursors[i]].transitions[DefSlot] = default_node_idx]
       IN  IF deflt = 0
           THEN match_default_loop(written, cursors, policy, default_node_idx, i + 1,
                                   new_cursors, errors)
           ELSE IF policy = "Skip"
           THEN match_default_loop(nodes, cursors, policy, default_node_idx, i + 1,
                                   Append(new_cursors, deflt), errors)
           ELSE IF policy = "Overwrite"
           THEN match_default_loop(written, cursors, policy, default_node_idx, i + 1,
                                   new_cursors, errors)
           ELSE match_default_loop(nodes, cursors, policy, default_node_idx, i + 1,
                                   new_cursors, errors + 1)

sm_match_default(m) ==
  LET default_node_idx == Len(m.nodes) + 1
      r == match_default_loop(Append(m.nodes, SmNode), m.cursors, m.on_conflict,
                              default_node_idx, 1, <<default_node_idx>>, 0)
  IN  IF get_node_asserts(m) THEN [m EXCEPT !.failed = TRUE]
      ELSE IF r.errors > 0
      THEN [m EXCEPT !.nodes = r.nodes, !.failed = TRUE]
      ELSE [m EXCEPT !.nodes = r.nodes, !.cursors = r.new_cursors]

sm_cursor_transition(m, child) ==
  LET without == SelectSeq(m.cursors, LAMBDA c : m.nodes[c].transitions[child] = 0)
      with    == SelectSeq(m.cursors, LAMBDA c : m.nodes[c].transitions[child] # 0)
      goes_to_idx == Len(m.nodes) + 1
      nodes1 == IF Len(without) > 0
                THEN [h \in 1 .. goes_to_idx |->
                        IF h = goes_to_idx THEN SmNode
                        ELSE IF InSeq(without, h)
                             THEN [m.nodes[h] EXCEPT !.transitions[child] = goes_to_idx]
                             ELSE m.nodes[h]]
                ELSE m.nodes
      fresh == IF Len(without) > 0 THEN <<goes_to_idx>> ELSE <<>>
  IN  IF get_node_asserts(m) THEN [m EXCEPT !.failed = TRUE]
      ELSE [m EXCEPT !.nodes = nodes1,
                     !.cursors = fresh \o [i \in DOMAIN with |-> m.nodes[with[i]].transitions[child]]]

sm_match_eof(m) == sm_cursor_transition(m, EOFSlot)

RECURSIVE sm_match_sequence(_, _)
sm_match_sequence(m, seq) ==
  IF seq = <<>> \/ m.failed THEN m
  ELSE sm_match_sequence(sm_cursor_transition(m, Head(seq)), Tail(seq))

\* the second loop of cursor_discreet_transition: an intermediary, cloned from
\* the old target, for every cursor that has the transition
RECURSIVE discreet_clone_loop(_, _, _, _, _)
discreet_clone_loop(nodes, with, transition, i, new_cursors) ==
  IF i > Len(with) THEN [nodes |-> nodes, new_cursors |-> new_cursors]
  ELSE LET cursor == with[i]
           old_target == nodes[cursor].transitions[transition]
           inter_idx == Len(nodes) + 1
           intermediary == IF old_target = cursor
                           THEN [nodes[old_target] EXCEPT !.transitions[transition] = inter_idx]
                           ELSE nodes[old_target]
           nodes1 == [Append(nodes, intermediary) EXCEPT ![cursor].transitions[transition] = inter_idx]
       IN  discreet_clone_loop(nodes1, with, transition, i + 1, Append(new_cursors, inter_idx))

cursor_discreet_transition(m, transition) ==
  LET without == SelectSeq(m.cursors, LAMBDA c : m.nodes[c].transitions[transition] = 0)
      with    == SelectSeq(m.cursors, LAMBDA c : m.nodes[c].transitions[transition] # 0)
      default_idx == Len(m.nodes) + 1
      nodes1 == IF Len(without) > 0
                THEN [h \in 1 .. default_idx |->
                        IF h = default_idx THEN SmNode
                        ELSE IF InSeq(without, h)
                             THEN [m.nodes[h] EXCEPT !.transitions[transition] = default_idx]
                             ELSE m.nodes[h]]
                ELSE m.nodes
      fresh == IF Len(without) > 0 THEN <<default_idx>> ELSE <<>>
      r == discreet_clone_loop(nodes1, with, transition, 1, fresh)
  IN  IF get_node_asserts(m) THEN [m EXCEPT !.failed = TRUE]
      ELSE [m EXCEPT !.nodes = r.nodes, !.cursors = r.new_cursors]

\* match_any_of: a fresh node `target` that nothing refers to, then one
\* cursor_discreet_transition per option, each from the initial cursors
RECURSIVE sm_any_of_loop(_, _, _, _)
sm_any_of_loop(m, initial_cursors, options, new_cursors) ==
  IF m.failed THEN m
  ELSE IF options = <<>> THEN [m EXCEPT !.cursors = new_cursors]
  ELSE LET m1 == cursor_discreet_transition([m EXCEPT !.cursors = initial_cursors], Head(options))
       IN  sm_any_of_loop(m1, initial_cursors, Tail(options), new_cursors \o m1.cursors)

sm_match_any_of(m, options) ==
  sm_any_of_loop([m EXCEPT !.nodes = Append(m.nodes, SmNode)], m.cursors, options, <<>>)

\* the cursor loop of exit_point, cursor i; returns [nodes, errors]
RECURSIVE exit_point_loop(_, _, _, _, _, _)
exit_point_loop(nodes, cursors, policy, back_by, i, errors) ==
  IF i > Len(cursors) THEN [nodes |-> nodes, errors |-> errors]
  ELSE LET cur == cursors[i]
           written == [nodes EXCEPT ![cur].value = ValueOf(back_by)]
       IN  IF nodes[cur].value = NoValue
           THEN exit_point_loop(written, cursors, policy, back_by, i + 1, errors)
           ELSE IF nodes[cur].value = ValueOf(back_by) \/ policy = "Skip"
           THEN exit_point_loop(nodes, cursors, policy, back_by, i + 1, errors)
           ELSE IF policy = "Overwrite"
           THEN exit_point_loop(written, cursors, policy, back_by, i + 1, errors)
           ELSE exit_point_loop(nodes, cursors, policy, back_by, i + 1, errors + 1)

exit_point(m, back_by) ==
  LET r == exit_point_loop(m.nodes, m.cursors, m.on_conflict, back_by, 1, 0)
  IN  IF get_node_asserts(m) THEN [m EXCEPT !.failed = TRUE]
      ELSE [m EXCEPT !.nodes = r.nodes, !.failed = r.errors > 0]

----------------------------------------------------------------------------
(* The optimizer of the generic builder *)

\* one pass of the while loop of nullify_nullrefs, node i; returns
\* [nodes, nulls, has_nulled]
RECURSIVE nullify_nullrefs_pass(_, _, _, _, _)
nullify_nullrefs_pass(nodes, cursors, nulls, i, has_nulled) ==
  IF i > Len(nodes) THEN [nodes |-> nodes, nulls |-> nulls, has_nulled |-> has_nulled]
  ELSE IF i \in nulls
  THEN nullify_nullrefs_pass(nodes, cursors, nulls, i + 1, has_nulled)
  ELSE LET cleared == [nodes EXCEPT ![i].transitions =
                         [k \in SmSlots |-> IF nodes[i].transitions[k] \in nulls THEN 0
                                            ELSE nodes[i].transitions[k]]]
       IN  IF is_deletable_node(cleared, cursors, i)
           THEN nullify_nullrefs_pass(cleared, cursors, nulls \cup {i}, i + 1, TRUE)
           ELSE nullify_nullrefs_pass(cleared, cursors, nulls, i + 1, has_nulled)

RECURSIVE nullify_nullrefs_loop(_, _, _)
nullify_nullrefs_loop(nodes, cursors, nulls) ==
  LET r == nullify_nullrefs_pass(nodes, cursors, nulls, 1, FALSE)
  IN  IF r.has_nulled THEN nullify_nullrefs_loop(r.nodes, cursors, r.nulls) ELSE r.nodes

nullify_nullrefs(nodes, cursors) ==
  nullify_nullrefs_loop(nodes, cursors,
                        {i \in DOMAIN nodes : is_deletable_node(nodes, cursors, i)})

\* the comparison of remove_duplicates_once: `other` matches `node` when
\* every transition that node has is the same in other, or is a
\* self-reference in both
sm_transitions_equal(node, node_idx, other, other_idx) ==
  \A k \in SmSlots :
    LET node_tzn == node.transitions[k]
        other_tzn == other.transitions[k]
    IN  node_tzn # 0 =>
          \/ (node_tzn = node_idx /\ other_tzn = other_idx)
          \/ node_tzn = other_tzn

\* matchers without the test of the cursor state
matchers_any_cursor_state(nodes, cursors, node_idx) ==
  {other_idx \in 2 .. (node_idx - 1) :
     /\ ~(sm_is_null(nodes[other_idx]) /\ other_idx \notin cursors)
     /\ nodes[node_idx].value = nodes[other_idx].value
     /\ sm_transitions_equal(nodes[node_idx], node_idx, nodes[other_idx], other_idx)}

\* the handles before node_idx, the root excluded, that match it
matchers(nodes, cursors, node_idx) ==
  {other_idx \in 2 .. (node_idx - 1) :
     /\ ~(sm_is_null(nodes[other_idx]) /\ other_idx \notin cursors)
     /\ (other_idx \in cursors) = (node_idx \in cursors)
     /\ nodes[node_idx].value = nodes[other_idx].value
     /\ sm_transitions_equal(nodes[node_idx], node_idx, nodes[other_idx], other_idx)}

\* every transition to a handle of olds now goes to new_idx, the olds are nullified
sm_fuse(nodes, olds, new_idx) ==
  [h \in DOMAIN nodes |->
     IF h \in olds THEN sm_nullify(nodes[h])
     ELSE [nodes[h] EXCEPT !.transitions =
             [k \in SmSlots |-> IF nodes[h].transitions[k] \in olds THEN new_idx
                                ELSE nodes[h].transitions[k]]]]

\* the reverse pass from handle node_idx down to 2; cursors is the set of
\* handles whose flag is set in the vector `cursors`
RECURSIVE sm_remove_duplicates_from(_, _, _, _)
sm_remove_duplicates_from(nodes, cursors, node_idx, has_removed_dup) ==
  IF node_idx < 2 THEN [nodes |-> nodes, cursors |-> cursors, removed |-> has_removed_dup]
  ELSE IF sm_is_null(nodes[node_idx]) /\ node_idx \notin cursors
  THEN sm_remove_duplicates_from(nodes, cursors, node_idx - 1, has_removed_dup)
  ELSE LET olds == matchers(nodes, cursors, node_idx)
       IN  IF olds # {}
           THEN sm_remove_duplicates_from(sm_fuse(nodes, olds, node_idx), cursors \ olds,
                                          node_idx - 1, TRUE)
           ELSE sm_remove_duplicates_from(nodes, cursors, node_idx - 1, has_removed_dup)

\* the fusions of the reverse pass from node_idx down to 2, in the order
\* they are made: the store and the flags each one starts from, the node
\* it keeps and the matchers it replaces
RECURSIVE sm_fusions_from(_, _, _)
sm_fusions_from(nodes, cursors, node_idx) ==
  IF node_idx < 2 THEN <<>>
  ELSE IF sm_is_null(nodes[node_idx]) /\ node_idx \notin cursors
  THEN sm_fusions_from(nodes, cursors, node_idx - 1)
  ELSE LET olds == matchers(nodes, cursors, node_idx)
       IN  IF olds # {}
           THEN <<[nodes |-> nodes, cursors |-> cursors, node |-> node_idx, olds |-> olds]>>
                  \o sm_fusions_from(sm_fuse(nodes, olds, node_idx), cursors \ olds, node_idx - 1)
           ELSE sm_fusions_from(nodes, cursors, node_idx - 1)

\* the handles of a set in increasing order
RECURSIVE SortedSeq(_)
SortedSeq(S) ==
  IF S = {} THEN <<>>
  ELSE LET least == CHOOSE x \in S : \A y \in S : x <= y
       IN  <<least>> \o SortedSeq(S \ {least})

\* returns [nodes, cursors, removed]; the cursor list is rebuilt from the flags
sm_remove_duplicates_once(nodes, cursors) ==
  LET r == sm_remove_duplicates_from(nodes, {cursors[i] : i \in DOMAIN cursors}, Len(nodes), FALSE)
  IN  [nodes |-> r.nodes, cursors |-> SortedSeq(r.cursors), removed |-> r.removed]

RECURSIVE sm_remove_duplicates(_, _)
sm_remove_duplicates(nodes, cursors) ==
  LET r == sm_remove_duplicates_once(nodes, cursors)
  IN  IF r.removed THEN sm_remove_duplicates(r.nodes, r.cursors)
      ELSE [nodes |-> r.nodes, cursors |-> r.cursors]

RECURSIVE sm_reach_from(_, _)
sm_reach_from(nodes, seen) ==
  LET more == seen \cup ({nodes[h].transitions[k] : h \in seen, k \in SmSlots} \ {0})
  IN  IF more = seen THEN seen ELSE sm_reach_from(nodes, more)

\* nullify_orphans tests a cursor c with reachables[c], the flag of handle
\* c + 1; for c = size the read is outside the vector and gives `outside`
sm_nullify_orphans(nodes, cursors, outside) ==
  LET reached == sm_reach_from(nodes, {1})
      kept(c) == IF c + 1 <= Len(nodes) THEN (c + 1) \in reached ELSE outside
  IN  [nodes |-> [h \in DOMAIN nodes |->
                    IF h \in reached THEN nodes[h] ELSE sm_nullify(nodes[h])],
       cursors |-> SelectSeq(cursors, kept)]

\* the first loop of remove_blanks, node h; idx is the next new handle and
\* has_cursor is asked about idx; returns the mappings
RECURSIVE remove_blanks_loop(_, _, _, _, _)
remove_blanks_loop(nodes, cursors, h, idx, mappings) ==
  IF h > Len(nodes) THEN mappings
  ELSE IF sm_is_null(nodes[h]) /\ h # 1 /\ ~has_cursor(cursors, idx)
  THEN remove_blanks_loop(nodes, cursors, h + 1, idx, mappings)
  ELSE remove_blanks_loop(nodes, cursors, h + 1, idx + 1, [mappings EXCEPT ![h] = idx])

sm_remove_blanks(nodes, cursors) ==
  LET first == [h \in DOMAIN nodes |-> IF h = 1 THEN 1 ELSE 0]
      mappings == remove_blanks_loop(nodes, cursors, 1, 1, first)
      kept == SelectSeq([h \in DOMAIN nodes |-> h], LAMBDA h : mappings[h] # 0)
  IN  [nodes |-> [i \in DOMAIN kept |->
                    [nodes[kept[i]] EXCEPT !.transitions =
                       [k \in SmSlots |-> IF nodes[kept[i]].transitions[k] = 0 THEN 0
                                          ELSE mappings[nodes[kept[i]].transitions[k]]]]],
       cursors |-> [i \in DOMAIN cursors |-> mappings[cursors[i]]]]

\* optimize() of the generic builder.  A cursor 0 (left by an earlier
\* remove_blanks) makes remove_duplicates_once write cursors[0 - 1], outside
\* the vector: the call is recorded as failed.
sm_optimize(m, outside) ==
  IF InSeq(m.cursors, 0) THEN [m EXCEPT !.failed = TRUE]
  ELSE
    LET n1 == nullify_nullrefs(m.nodes, m.cursors)
        d1 == sm_remove_duplicates(n1, m.cursors)
        n2 == nullify_nullrefs(d1.nodes, d1.cursors)
        d2 == sm_remove_duplicates(n2, d1.cursors)
        o  == sm_nullify_orphans(d2.nodes, d2.cursors, outside)
        b  == sm_remove_blanks(o.nodes, o.cursors)
    IN  [m EXCEPT !.nodes = b.nodes, !.cursors = b.cursors]

----------------------------------------------------------------------------
(* Sub-patterns handed to match, match_optionally, match_many_optionally   *)
(* and match_many: pure-regex machines built with the same builder.        *)

PatA   == terminal(match_sequence(NewMachine, <<0>>))                     \* a
PatAB  == terminal(match_sequence(NewMachine, <<0, 1>>))                  \* ab
PatAny == terminal(match_any_of(NewMachine, <<0, 1>>))                    \* a|b
PatAAA == terminal(match_sequence(terminal(match_sequence(NewMachine, <<0>>)), <<0>>))  \* a|aa

Patterns == <<PatA, PatAB, PatAny, PatAAA>>

Words == SeqsUpTo(Chars, MaxSeqLen)
Inputs == SeqsUpTo(Chars, MaxInput)

\* the arguments of match_any_of: non-empty strings without a repeated character
Choices == {w \in SeqsUpTo(Chars, NumSyms) : w # <<>> /\ \A i, j \in DOMAIN w : i # j => w[i] # w[j]}

----------------------------------------------------------------------------
(* Linking in the generic builder: make_nonambiguous_link and the calls    *)
(* built on it, match and match_many_optionally.  A link call gives        *)
(* [nodes, tracked, returns, failed]: failed is raised by PANIC, and       *)
(* returns is FALSE when the recursion goes deeper than MaxLinkDepth       *)
(* nested calls, where the model stops following it.                       *)

MaxLinkDepth == 12

\* the keys of get_node(to).get_transitions(): the slots that are set, in slot order
sm_get_transitions(node) == SelectSeq([i \in 1 .. (DefSlot + 1) |-> i - 1], LAMBDA k : node.transitions[k] # 0)

\* a loop that visits every transition of `to` twice
sm_transition_pairs_twice(node) ==
  [i \in 1 .. (2 * Len(sm_get_transitions(node))) |->
     LET key == sm_get_transitions(node)[((i - 1) % Len(sm_get_transitions(node))) + 1]
     IN  <<key, node.transitions[key]>>]

\* get_transitions() as the loop receives it: a copy of the <<key, reference>>
\* pairs of the set slots, taken once before the loop
sm_transition_pairs(node) ==
  [i \in DOMAIN sm_get_transitions(node) |->
     <<sm_get_transitions(node)[i], node.transitions[sm_get_transitions(node)[i]]>>]

\* "fix self-references": every slot of the clone that holds current_target gets nidx
sm_fix_self_references(node, current_target, nidx) ==
  [node EXCEPT !.transitions = [k \in SmSlots |-> IF node.transitions[k] = current_target THEN nidx
                                                  ELSE node.transitions[k]]]

\* "Handle node value propogation": the value of the clone after the policy is applied
sm_propagate_value(node, to_node, policy) ==
  IF to_node.value # NoValue /\ (node.value = NoValue \/ policy = "Overwrite")
  THEN [node EXCEPT !.value = to_node.value]
  ELSE node

\* a clone step that also redirects to the clone every slot of the store that held current_target
sm_clone_redirecting(nodes, current_target, nidx) ==
  [h \in 1 .. nidx |-> sm_fix_self_references(IF h = nidx THEN nodes[current_target] ELSE nodes[h],
                                              current_target, nidx)]

\* new_node(), "clone the current target to node" and "fix self-references":
\* the store with the clone nidx at its end, no other node written
sm_clone(nodes, current_target, nidx) == Append(nodes, sm_fix_self_references(nodes[current_target], current_target, nidx))

RECURSIVE sm_make_nonambiguous_link(_, _, _, _, _, _, _), sm_link_copy_in(_, _, _, _, _, _, _, _, _)

sm_make_nonambiguous_link(nodes, from, transition, to, watch_nodes, policy, depth) ==
  LET current_target == nodes[from].transitions[transition] IN
  IF current_target = 0
  THEN [nodes |-> [nodes EXCEPT ![from].transitions[transition] = to], tracked |-> <<>>,
        returns |-> TRUE, failed |-> FALSE]
  ELSE IF current_target = to
  THEN [nodes |-> nodes, tracked |-> <<>>, returns |-> TRUE, failed |-> FALSE]
  ELSE IF depth = 0
  THEN [nodes |-> nodes, tracked |-> <<>>, returns |-> FALSE, failed |-> FALSE]
  ELSE
    LET nidx == Len(nodes) + 1
        cloned == sm_clone(nodes, current_target, nidx)[nidx]
        tracked0 == IF InSeq(watch_nodes, to) \/ InSeq(watch_nodes, current_target)
                    THEN <<nidx>> ELSE <<>>
        to_node == nodes[to]
        r == sm_link_copy_in([sm_clone(nodes, current_target, nidx) EXCEPT
                                ![nidx] = sm_propagate_value(cloned, to_node, policy)], nidx,
                             current_target, to, watch_nodes, policy, depth,
                             sm_transition_pairs(to_node), tracked0)
    IN  IF to_node.value # NoValue /\ cloned.value # NoValue /\ policy = "Error"
        THEN [nodes |-> sm_clone(nodes, current_target, nidx), tracked |-> tracked0, returns |-> TRUE,
              failed |-> TRUE]
        ELSE IF r.returns /\ ~r.failed
        THEN [r EXCEPT !.nodes[from].transitions[transition] = nidx]
        ELSE r

\* the loop over the copied transitions of `to` that merges them into the clone nidx
sm_link_copy_in(nodes, nidx, current_target, to, watch_nodes, policy, depth, pairs, tracked) ==
  IF pairs = <<>> THEN [nodes |-> nodes, tracked |-> tracked, returns |-> TRUE, failed |-> FALSE]
  ELSE
    LET key == Head(pairs)[1]
        reference == Head(pairs)[2]
        node_transition == nodes[nidx].transitions[key]
    IN
    IF node_transition = nidx /\ reference = 0
    THEN sm_link_copy_in([nodes EXCEPT ![nidx].transitions[key] = current_target], nidx,
                         current_target, to, watch_nodes, policy, depth, Tail(pairs), tracked)
    ELSE IF reference = to /\ node_transition = 0
    THEN sm_link_copy_in([nodes EXCEPT ![nidx].transitions[key] = current_target], nidx,
                         current_target, to, watch_nodes, policy, depth, Tail(pairs), tracked)
    ELSE IF reference = to /\ node_transition = nidx
    THEN sm_link_copy_in(nodes, nidx, current_target, to, watch_nodes, policy, depth,
                         Tail(pairs), tracked)
    ELSE IF reference = 0
    THEN sm_link_copy_in(nodes, nidx, current_target, to, watch_nodes, policy, depth,
                         Tail(pairs), tracked)
    ELSE
      LET r == sm_make_nonambiguous_link(nodes, nidx, key, reference, watch_nodes, policy, depth - 1)
      IN  IF r.returns /\ ~r.failed
          THEN sm_link_copy_in(r.nodes, nidx, current_target, to, watch_nodes, policy, depth,
                               Tail(pairs), tracked \o r.tracked)
          ELSE r

\* consume_regex_except_root: the non-root nodes of regex without their
\* values, handles shifted by base_index; returns [nodes, terminals, base_index]
consume_regex_except_root(nodes, regex) ==
  LET base_index == Len(nodes) - 1
      shifted(n) == [transitions |-> [k \in SmSlots |-> IF n.transitions[k] = 0 THEN 0
                                                        ELSE n.transitions[k] + base_index],
                     value |-> NoValue]
      idxs == [i \in 1 .. (Len(regex.nodes) - 1) |-> i + 1]
      valued == SelectSeq(idxs, LAMBDA h : regex.nodes[h].value # NoValue)
  IN  [nodes |-> nodes \o [i \in DOMAIN idxs |-> shifted(regex.nodes[idxs[i]])],
       terminals |-> [i \in DOMAIN valued |-> valued[i] + base_index],
       base_index |-> base_index]

\* one make_nonambiguous_link per pair of `links`, a sequence of
\* <<from, key, to>>, in order; the clones that replace watched nodes join
\* the watch list when `watching`; returns [nodes, terminals, returns, failed]
RECURSIVE sm_links(_, _, _, _, _)
sm_links(nodes, links, terminals, watching, policy) ==
  IF links = <<>> THEN [nodes |-> nodes, terminals |-> terminals, returns |-> TRUE, failed |-> FALSE]
  ELSE LET l == Head(links)
           r == sm_make_nonambiguous_link(nodes, l[1], l[2], l[3],
                                          IF watching THEN terminals ELSE <<>>, policy, MaxLinkDepth)
       IN  IF r.returns /\ ~r.failed
           THEN sm_links(r.nodes, Tail(links), IF watching THEN terminals \o r.tracked ELSE terminals,
                         watching, policy)
           ELSE [nodes |-> r.nodes, terminals |-> terminals, returns |-> r.returns, failed |-> r.failed]

\* the sequence of <<outer[i], key, dest>> (keys_first = FALSE) or of
\* <<froms[j], key, dest>> grouped by key (keys_first = TRUE) that the nested loops visit
RECURSIVE LinksOf(_, _, _, _)
LinksOf(froms, keys, dest, keys_first) ==
  IF keys_first
  THEN IF keys = <<>> THEN <<>>
       ELSE [j \in DOMAIN froms |-> <<froms[j], Head(keys), dest[Head(keys)]>>]
            \o LinksOf(froms, Tail(keys), dest, TRUE)
  ELSE IF froms = <<>> THEN <<>>
       ELSE [j \in DOMAIN keys |-> <<Head(froms), keys[j], dest[keys[j]]>>]
            \o LinksOf(Tail(froms), keys, dest, FALSE)

\* root transitions shifted one handle too low
sm_new_root_transitions_low(regex, base_index) ==
  [transitions |-> [k \in SmSlots |-> IF regex.nodes[1].transitions[k] = 0 THEN 0
                                      ELSE regex.nodes[1].transitions[k] + base_index - 1],
   value |-> NoValue]

\* the transitions of the root of regex, shifted into the store
sm_new_root_transitions(regex, base_index) ==
  [transitions |-> [k \in SmSlots |-> IF regex.nodes[1].transitions[k] = 0 THEN 0
                                      ELSE regex.nodes[1].transitions[k] + base_index],
   value |-> NoValue]

\* a call built on linking gives the machine it leaves and whether it returned
sm_merge_regex_into_machine(m, regex) ==
  LET result == consume_regex_except_root(m.nodes, regex)
      new_root == sm_new_root_transitions(regex, result.base_index)
      r == sm_links(result.nodes,
                    LinksOf(m.cursors, sm_get_transitions(new_root), new_root.transitions, FALSE),
                    result.terminals, TRUE, m.on_conflict)
  IN  IF get_node_asserts(m) THEN [machine |-> [m EXCEPT !.failed = TRUE], returns |-> TRUE]
      ELSE [machine |-> [m EXCEPT !.nodes = r.nodes, !.cursors = r.terminals, !.failed = r.failed],
            returns |-> r.returns]

sm_match(m, pattern) == sm_merge_regex_into_machine(m, pattern)

sm_match_many_optionally(m, pattern) ==
  LET cursors_before == m.cursors
      consumed == consume_regex_except_root(m.nodes, pattern)
      new_root == sm_new_root_transitions(pattern, consumed.base_index)
      keys == sm_get_transitions(new_root)
      cycle == sm_links(consumed.nodes, LinksOf(consumed.terminals, keys, new_root.transitions, TRUE),
                        <<>>, FALSE, m.on_conflict)
      entry == sm_links(cycle.nodes, LinksOf(cursors_before, keys, new_root.transitions, TRUE),
                        <<>>, FALSE, m.on_conflict)
  IN  IF get_node_asserts(m) THEN [machine |-> [m EXCEPT !.failed = TRUE], returns |-> TRUE]
      ELSE IF ~cycle.returns \/ cycle.failed
      THEN [machine |-> [m EXCEPT !.nodes = cycle.nodes, !.failed = cycle.failed],
            returns |-> cycle.returns]
      ELSE [machine |-> [m EXCEPT !.nodes = entry.nodes,
                                  !.cursors = IF entry.returns /\ ~entry.failed
                                              THEN cursors_before \o consumed.terminals ELSE m.cursors,
                                  !.failed = entry.failed],
            returns |-> entry.returns]

----------------------------------------------------------------------------
(* The valued byte builder, MutableStateMachine<Value_T> with Value_T not  *)
(* void: a node carries std::optional<Value_T> in place of the terminal    *)
(* flag (NoValue is the empty optional, ValueOf(v) holds v).  A machine is *)
(* a record [nodes, cursors, on_conflict, failed]; failed is raised by     *)
(* PANIC.                                                                  *)

NumValues == 2
Values == 1 .. NumValues

VmNode == [transitions |-> [k \in Slots |-> 0], value |-> NoValue, consume_char |-> TRUE]

\* MutableStateMachine(): the root is pushed, the cursor list is {1}, on_conflict is Error
VmNew == [nodes |-> <<VmNode>>, cursors |-> <<1>>, on_conflict |-> "Error", failed |-> FALSE]

\* the transitions and the cursors of a valued machine: the part that the
\* value-independent members of the class template work on
Shape(vm) ==
  [nodes   |-> [h \in DOMAIN vm.nodes |->
                  [transitions |-> vm.nodes[h].transitions, terminal |-> FALSE,
                   consume_char |-> vm.nodes[h].consume_char]],
   cursors |-> vm.cursors,
   returns |-> TRUE]

\* the valued machine after a value-independent member turned Shape(vm) into m:
\* the nodes of vm keep their values, the nodes made by new_node() have none
Reshaped(vm, m) ==
  [vm EXCEPT !.nodes = [h \in DOMAIN m.nodes |->
                          [transitions  |-> m.nodes[h].transitions,
                           value        |-> IF h <= Len(vm.nodes) THEN vm.nodes[h].value ELSE NoValue,
                           consume_char |-> m.nodes[h].consume_char]],
              !.cursors = m.cursors]

vm_match_sequence(vm, seq) == Reshaped(vm, match_sequence(Shape(vm), seq))

vm_match_any_of(vm, choices) == Reshaped(vm, match_any_of(Shape(vm), choices))

vm_goback(vm) == Reshaped(vm, goback(Shape(vm)))

vm_conflict(vm, c) == [vm EXCEPT !.on_conflict = c]

\* the loop of commit_continue over m_cursors, from position i on
RECURSIVE commit_continue_loop(_, _, _)
commit_continue_loop(vm, i, value) ==
  IF i > Len(vm.cursors) THEN vm
  ELSE LET cur == vm.cursors[i]
       IN  IF vm.nodes[cur].value # NoValue
           THEN IF vm.on_conflict = "Skip"
                THEN commit_continue_loop(vm, i + 1, value)
                ELSE IF vm.on_conflict = "Overwrite"
                     THEN commit_continue_loop([vm EXCEPT !.nodes[cur].value = ValueOf(value)], i + 1, value)
                     ELSE [vm EXCEPT !.failed = TRUE]
           ELSE commit_continue_loop([vm EXCEPT !.nodes[cur].value = ValueOf(value)], i + 1, value)

commit_continue(vm, value) == commit_continue_loop(vm, 1, value)

\* a commit() that writes the value and leaves the cursors where they are
commit_keeps_cursors(vm, value) == commit_continue(vm, value)

commit(vm, value) ==
  LET written == commit_continue(vm, value)
  IN  IF written.failed THEN written ELSE [written EXCEPT !.cursors = <<1>>]

----------------------------------------------------------------------------
(* The node types of the generic builder, one node at a time: the          *)
(* map-backed StateMachineNode, the byte-array StateMachineNode and their  *)
(* accepting value Node_Value<T>.                                          *)

MaxNdHandle == 2  \* handles written into the slots of the node
MaxNdBackBy == 1  \* largest back_by of an accepting value of the node

\* TransitionKey: a value key, the EOF key or the default key
KeyVal(k) == <<"val", k>>
KeyEof == <<"eof">>
KeyDef == <<"def">>
NdKeys == {KeyVal(k) : k \in Chars} \cup {KeyEof, KeyDef}

\* Node_Value<T>: a payload and back_by
NodeValues == [value : Values, back_by : 0 .. MaxNdBackBy]

\* Node_Value<T>::operator==
node_value_eq(x, y) == x.back_by = y.back_by /\ x.value = y.value

\* Node_Value<T>::operator!=
node_value_ne(x, y) == x.back_by # y.back_by /\ x.value # y.value

\* std::optional<Node_Value<T>>: <<>> is "no value", <<x>> holds x
OptionalValues == {NoValue} \cup {<<x>> : x \in NodeValues}

\* operator!= of std::optional: differs when only one holds a value,
\* otherwise the operator!= of the values decides
optional_ne(a, b) ==
  IF (a = NoValue) # (b = NoValue) THEN TRUE
  ELSE IF a = NoValue THEN FALSE
  ELSE node_value_ne(a[1], b[1])

\* the map-backed node: `transitions` is the std::map, a function on the
\* keys that have an entry
MapNode == [transitions |-> [k \in {} |-> 0], eof_transition |-> 0, default_transition |-> 0,
            value |-> NoValue]

\* transition(key) returns a reference: transitions[key] creates the entry
\* of a value key that has none
map_transition(node, key) ==
  IF key[1] = "val" /\ key[2] \notin DOMAIN node.transitions
  THEN [node EXCEPT !.transitions = [k \in (DOMAIN node.transitions) \cup {key[2]} |->
                                       IF k = key[2] THEN 0 ELSE node.transitions[k]]]
  ELSE node

\* the content of the slot transition(key) refers to
map_slot(node, key) ==
  IF key = KeyEof THEN node.eof_transition
  ELSE IF key = KeyDef THEN node.default_transition
  ELSE IF key[2] \in DOMAIN node.transitions THEN node.transitions[key[2]] ELSE 0

\* transition(key) = to
map_write(node, key, to) ==
  IF key = KeyEof THEN [node EXCEPT !.eof_transition = to]
  ELSE IF key = KeyDef THEN [node EXCEPT !.default_transition = to]
  ELSE [map_transition(node, key) EXCEPT !.transitions[key[2]] = to]

map_nullify(node) ==
  [transitions |-> [k \in {} |-> 0], eof_transition |-> 0, default_transition |-> 0,
   value |-> NoValue]

map_is_null(node) ==
  /\ node.value = NoValue
  /\ DOMAIN node.transitions = {}
  /\ node.eof_transition = 0
  /\ node.default_transition = 0

\* the pairs <<key, destination>> each_transition hands to its callback
map_each_transition(node) ==
  {<<KeyVal(k), node.transitions[k]>> : k \in {c \in DOMAIN node.transitions : node.transitions[c] # 0}}
  \cup (IF node.eof_transition # 0 THEN {<<KeyEof, node.eof_transition>>} ELSE {})
  \cup (IF node.default_transition # 0 THEN {<<KeyDef, node.default_transition>>} ELSE {})

\* the pairs get_transitions returns: the entry of a value transition is
\* built with ti.key = Key_T::value(v), v being the destination
map_get_transitions(node) ==
  (IF node.eof_transition # 0 THEN {<<KeyEof, node.eof_transition>>} ELSE {})
  \cup (IF node.default_transition # 0 THEN {<<KeyDef, node.default_transition>>} ELSE {})
  \cup {<<KeyVal(node.transitions[k]), node.transitions[k]>> :
          k \in {c \in DOMAIN node.transitions : node.transitions[c] # 0}}

\* the slot of the byte-array node that a key stands for
arr_slot(key) == IF key = KeyEof THEN EOFSlot ELSE IF key = KeyDef THEN DefSlot ELSE key[2]

\* the key of a slot of the byte-array node
arr_key(slot) == IF slot = EOFSlot THEN KeyEof ELSE IF slot = DefSlot THEN KeyDef ELSE KeyVal(slot)

\* each_transition of the byte-array node: the set slots, each under its own key
arr_each_transition(node) ==
  {<<arr_key(c), node.transitions[c]>> : c \in {k \in SmSlots : node.transitions[k] # 0}}

\* get_transitions of the byte-array node
arr_get_transitions(node) ==
  {<<arr_key(sm_transition_pairs(node)[i][1]), sm_transition_pairs(node)[i][2]>> :
     i \in DOMAIN sm_transition_pairs(node)}

(* UTF-8 keys.  A scalar is handed to the builder as its UTF-8 bytes      *)
(* packed into one char32_t, first byte highest.  The model writes the     *)
(* 32-bit key as its four bytes <<b3, b2, b1, b0>>, highest first.         *)

KEY_MASK == 191

\* x & 0b10111111, for a byte x
and_key_mask(x) == x - (IF (x \div (255 - KEY_MASK)) % 2 = 1 THEN 255 - KEY_MASK ELSE 0)

\* (key >> 8n) & 0xFF: byte n (0 the lowest) of the key
byte_of(key, n) == key[4 - n]

\* the UTF-8 bytes of the scalar, in input order
utf8_bytes(key) ==
  IF byte_of(key, 3) # 0 THEN <<byte_of(key, 3), byte_of(key, 2), byte_of(key, 1), byte_of(key, 0)>>
  ELSE IF byte_of(key, 2) # 0 THEN <<byte_of(key, 2), byte_of(key, 1), byte_of(key, 0)>>
  ELSE IF byte_of(key, 1) # 0 THEN <<byte_of(key, 1), byte_of(key, 0)>>
  ELSE <<byte_of(key, 0)>>

\* match_any_of, UTF-8 branch: the value keys handed to
\* cursor_discreet_transition for one choice, each of which transition(key)
\* uses as the slot index; (key >> 8n) & drop_mask keeps byte n without
\* its second-highest bit, a one-byte key is used as it is
utf8_installed_slots(key) ==
  IF byte_of(key, 3) # 0
  THEN <<and_key_mask(byte_of(key, 3)), and_key_mask(byte_of(key, 2)),
         and_key_mask(byte_of(key, 1)), and_key_mask(byte_of(key, 0))>>
  ELSE IF byte_of(key, 2) # 0
  THEN <<and_key_mask(byte_of(key, 2)), and_key_mask(byte_of(key, 1)), and_key_mask(byte_of(key, 0))>>
  ELSE IF byte_of(key, 1) # 0
  THEN <<and_key_mask(byte_of(key, 1)), and_key_mask(byte_of(key, 0))>>
  ELSE <<byte_of(key, 0)>>

\* get_transition(c) reads transitions[c & KEY_MASK]
get_transition_slot(c) == and_key_mask(c)

\* the scalars the node specification installs, as packed UTF-8:
\* "!" (21), "a" (61), DEL (7F), e-acute (C3 A9), the euro sign
\* (E2 82 AC) and U+1F600 (F0 9F 98 80)
Utf8Scalars == {<<0, 0, 0, 33>>, <<0, 0, 0, 97>>, <<0, 0, 0, 127>>, <<0, 0, 195, 169>>,
                <<0, 226, 130, 172>>, <<240, 159, 152, 128>>}

\* the state of the node specification: one node of each shape, written in
\* step, the value of another node, and the last scalar installed
NdNew == [map |-> MapNode, arr |-> SmNode, other |-> NoValue, scalar |-> <<>>, written |-> <<>>]

----------------------------------------------------------------------------
(* The free-form specification: any program of at most MaxOps builder      *)
(* calls on one byte builder.                                              *)

\* no matching call has been made
NoCall == [call |-> "none", input |-> <<>>, out |-> <<>>]

Machine == [nodes |-> m_nodes, cursors |-> m_cursors, returns |-> TRUE]

Init ==
  /\ m_nodes = NewMachine.nodes
  /\ m_cursors = NewMachine.cursors
  /\ last = "new"
  /\ nops = 0
  /\ prog = <<>>
  /\ res = NoCall
  /\ returned = TRUE
  /\ sm_nodes = SmNew.nodes
  /\ sm_cursors = SmNew.cursors
  /\ on_conflict = SmNew.on_conflict
  /\ sm_failed = SmNew.failed
  /\ vm_nodes = VmNew.nodes
  /\ vm_cursors = VmNew.cursors
  /\ vm_on_conflict = VmNew.on_conflict
  /\ vm_failed = VmNew.failed
  /\ nd = NdNew

\* the builder call `name` turned the machine into m
Becomes(m, name) ==
  /\ returned
  /\ nops < MaxOps
  /\ IF m.returns
     THEN Len(m.nodes) <= MaxNodes /\ m_nodes' = m.nodes /\ m_cursors' = m.cursors
     ELSE UNCHANGED <<m_nodes, m_cursors>>
  /\ returned' = m.returns
  /\ last' = name
  /\ nops' = nops + 1
  /\ UNCHANGED <<nd, prog, res, sm_vars, vm_vars>>

MatchSequence == \E seq \in Words : Becomes(match_sequence(Machine, seq), "match_sequence")
MatchAnyOf == \E choices \in Choices : Becomes(match_any_of(Machine, choices), "match_any_of")
MatchAny == Becomes(match_any(Machine), "match_any")
MatchEof == Becomes(match_eof(Machine), "match_eof")
MatchDefault == Becomes(match_default(Machine), "match_default")
Terminal == Becomes(terminal(Machine), "terminal")
Goback == Becomes(goback(Machine), "goback")
Match ==
  \E p \in DOMAIN Patterns, reloc \in BOOLEAN :
    Becomes(match(Machine, Patterns[p], reloc), "match")
MatchOptionally ==
  \E p \in DOMAIN Patterns, reloc \in BOOLEAN :
    Becomes(match_optionally(Machine, Patterns[p], reloc), "match_optionally")
MatchManyOptionally ==
  \E p \in DOMAIN Patterns, reloc \in BOOLEAN :
    Becomes(match_many_optionally(Machine, Patterns[p], reloc), "match_many_optionally")
MatchMany ==
  \E p \in DOMAIN Patterns, reloc \in BOOLEAN :
    Becomes(match_many(Machine, Patterns[p], reloc), "match_many")
Optimize == Becomes(optimize(Machine), "optimize")

Next ==
  \/ MatchSequence
  \/ MatchAnyOf
  \/ MatchAny
  \/ MatchEof
  \/ MatchDefault
  \/ Terminal
  \/ Goback
  \/ Match
  \/ MatchOptionally
  \/ MatchManyOptionally
  \/ MatchMany
  \/ Optimize

Spec == Init /\ [][Next]_vars

----------------------------------------------------------------------------
(* The literal specification: a program that adds distinct literals as     *)
(* accepting, match_sequence(s).terminal().goback() for each, and then     *)
(* calls optimize().  prog records the literals in the order of addition.  *)

Range(f) == {f[i] : i \in DOMAIN f}

\* the builder call `name` turned the machine into m, in a program-shaped specification
Runs(m, name, newprog) ==
  /\ returned
  /\ IF m.returns
     THEN Len(m.nodes) < NodeCap /\ m_nodes' = m.nodes /\ m_cursors' = m.cursors
     ELSE UNCHANGED <<m_nodes, m_cursors>>
  /\ returned' = m.returns
  /\ last' = name
  /\ nops' = nops + 1
  /\ prog' = newprog
  /\ UNCHANGED <<nd, res, sm_vars, vm_vars>>

LitSequence ==
  /\ last \in {"new", "goback"}
  /\ Len(prog) < MaxLits
  /\ \E s \in Words \ Range(prog) :
       Runs(match_sequence(Machine, s), "match_sequence", Append(prog, s))

LitTerminal == last = "match_sequence" /\ Runs(terminal(Machine), "terminal", prog)

LitGoback == last = "terminal" /\ Runs(goback(Machine), "goback", prog)

LitOptimize == last = "goback" /\ Runs(optimize(Machine), "optimize", prog)

NextLit == LitSequence \/ LitTerminal \/ LitGoback \/ LitOptimize

SpecLit == Init /\ [][NextLit]_vars

\* the machine the literal program lits builds, before optimize()
RECURSIVE add_literals(_, _)
add_literals(m, lits) ==
  IF lits = <<>> THEN m
  ELSE add_literals(goback(terminal(match_sequence(m, Head(lits)))), Tail(lits))

Permutations_of(q) ==
  {r \in [DOMAIN q -> Range(q)] : \A i, j \in DOMAIN q : i # j => r[i] # r[j]}

----------------------------------------------------------------------------
(* The composition specification: the program                              *)
(*   match_sequence(a) . OP(p) . [match_sequence(b)] . terminal()          *)
(* on a fresh builder, OP one of match_many_optionally, match_optionally,  *)
(* match_many.  prog records the calls and their arguments.                *)

CompSeqA ==
  /\ prog = <<>>
  /\ \E a \in Words :
       Runs(match_sequence(Machine, a), "match_sequence", <<<<"match_sequence", a>>>>)

CompManyOptionally ==
  /\ Len(prog) = 1
  /\ \E p \in DOMAIN Patterns, reloc \in BOOLEAN :
       Runs(match_many_optionally(Machine, Patterns[p], reloc), "match_many_optionally",
            Append(prog, <<"match_many_optionally", p>>))

CompOptionally ==
  /\ Len(prog) = 1
  /\ \E p \in DOMAIN Patterns, reloc \in BOOLEAN :
       Runs(match_optionally(Machine, Patterns[p], reloc), "match_optionally",
            Append(prog, <<"match_optionally", p>>))

CompMany ==
  /\ Len(prog) = 1
  /\ \E p \in DOMAIN Patterns, reloc \in BOOLEAN :
       Runs(match_many(Machine, Patterns[p], reloc), "match_many",
            Append(prog, <<"match_many", p>>))

CompSeqB ==
  /\ Len(prog) = 2
  /\ \E b \in Words :
       Runs(match_sequence(Machine, b), "match_sequence", Append(prog, <<"match_sequence", b>>))

CompTerminal ==
  /\ Len(prog) \in {2, 3}
  /\ last # "terminal"
  /\ Runs(terminal(Machine), "terminal", Append(prog, <<"terminal", <<>>>>))

NextComp ==
  \/ CompSeqA
  \/ CompManyOptionally
  \/ CompOptionally
  \/ CompMany
  \/ CompSeqB
  \/ CompTerminal

SpecComp == Init /\ [][NextComp]_vars

\* Languages, as sets of inputs of at most MaxInput characters
Accepted(nodes) == {x \in Inputs : matches(nodes, x)}

Cat(A, B) == {u \o v : u \in A, v \in B} \cap Inputs

RECURSIVE StarFrom(_, _)
StarFrom(A, S) ==
  LET more == S \cup Cat(S, A)
  IN  IF more = S THEN S ELSE StarFrom(A, more)

Star(A) == StarFrom(A, {<<>>})

----------------------------------------------------------------------------
(* Properties of the byte optimizer *)

\* C1: optimize() never changes the accepted language: for every machine
\* reachable by builder calls and every input x, matches(x) gives the same
\* result before and after optimize().
C1_OptimizeKeepsLanguage ==
  \A x \in Inputs : matches(optimize(Machine).nodes, x) = matches(m_nodes, x)

\* C2: two literal programs that add the same literals in different orders
\* give machines that are equal under operator== after optimize().
C2_OrderIndependent ==
  last = "optimize" =>
    \A q \in Permutations_of(prog) :
      machines_equal(Machine, optimize(add_literals(NewMachine, q)))

\* C3: after the literal program for the set S and optimize(), matches(x) is
\* true exactly for the x in S.
C3_LiteralsExact ==
  last = "optimize" => \A x \in Inputs : matches(m_nodes, x) <=> x \in Range(prog)

\* a literal program of MaxLits literals with the empty one, whose machine
\* accepts a two-character literal and rejects its one-character prefix
C3_Witness ==
  /\ last = "optimize"
  /\ Len(prog) = MaxLits
  /\ <<>> \in Range(prog)
  /\ \E s \in Range(prog) :
       Len(s) = 2 /\ <<s[1]>> \notin Range(prog) /\ matches(m_nodes, s) /\ ~matches(m_nodes, <<s[1]>>)

----------------------------------------------------------------------------
(* Properties of the composition programs *)

\* the program run so far is  match_sequence(a) . op(p) . rest
CompDone(op, n) == Len(prog) = n /\ prog[2][1] = op /\ last = "terminal"

PatternWords(p) == Accepted(Patterns[p].nodes)

\* C4: match_sequence(a).match_many_optionally(p).match_sequence(b).terminal()
\* accepts exactly the strings a w1 ... wn b, n >= 0, every wi accepted by p.
C4_KleeneLaw ==
  CompDone("match_many_optionally", 4) =>
    Accepted(m_nodes) = Cat(Cat({prog[1][2]}, Star(PatternWords(prog[2][2]))), {prog[3][2]})

\* C5: match_sequence(a).match_optionally(p).match_sequence(b).terminal()
\* accepts exactly a b and a w b for w accepted by p.
C5_OptionalLaw ==
  CompDone("match_optionally", 4) =>
    Accepted(m_nodes) =
      Cat(Cat({prog[1][2]}, {<<>>} \cup PatternWords(prog[2][2])), {prog[3][2]})

\* C6: match_sequence(a).match_many(p).terminal() builds a machine (the calls
\* return) that accepts exactly a followed by one or more words of p.
C6_PlusLaw ==
  (Len(prog) >= 2 /\ prog[2][1] = "match_many") =>
    /\ returned
    /\ last = "terminal" =>
         Accepted(m_nodes) =
           Cat(Cat({prog[1][2]}, PatternWords(prog[2][2])), Star(PatternWords(prog[2][2])))

----------------------------------------------------------------------------
(* The matching specification: a program of at most MaxExecOps builder     *)
(* calls, then one matching call on the machine it built.  res records     *)
(* the matching call, its input and what it returned.                      *)

MaxExecOps == 3   \* builder calls before the matching calls
MaxExecInput == 3 \* longest input handed to lookup, find_first and find_many

ExecInputs == SeqsUpTo(Chars, MaxExecInput)

Returns(call, input, out) ==
  /\ returned
  /\ res = NoCall
  /\ res' = [call |-> call, input |-> input, out |-> out]
  /\ UNCHANGED <<nd, m_nodes, m_cursors, last, nops, prog, returned, sm_vars, vm_vars>>

Lookup == \E s \in ExecInputs : Returns("lookup", s, lookup(m_nodes, s))
FindFirst == \E s \in ExecInputs : Returns("find_first", s, find_first(m_nodes, s))
FindMany == \E s \in ExecInputs : Returns("find_many", s, find_many(m_nodes, s))

Build == res = NoCall /\ nops < MaxExecOps /\ Next

NextExec == Build \/ Lookup \/ FindFirst \/ FindMany

SpecExec == Init /\ [][NextExec]_vars

Called(call) == res.call = call

\* the lengths k >= least of the words of s starting at position i that matches() accepts
AcceptedLengths(s, i, least) ==
  {k \in least .. (Len(s) - i + 1) : matches(m_nodes, SubSeq(s, i, i + k - 1))}

Greatest(S) == CHOOSE x \in S : \A y \in S : y <= x
Least(S) == CHOOSE x \in S : \A y \in S : x <= y

\* C8: lookup(s) returns the end of the longest accepted prefix of s, the
\* empty prefix included, and the null end only when no prefix is accepted.
C8_LookupLongestPrefix ==
  Called("lookup") =>
    LET acc == AcceptedLengths(res.input, 1, 0)
    IN  /\ res.out.end = nullptr <=> acc = {}
        /\ res.out.end # nullptr => res.out.end = Greatest(acc)

\* C9: find_first(s) returns the match at the leftmost offset that has one,
\* the longest match at that offset, and null begin/end only if no offset
\* has a match.  A match is a range of symbols, begin to end inclusive.
C9_LeftmostLongest ==
  Called("find_first") =>
    LET s == res.input
        anchors == {i \in 1 .. Len(s) : AcceptedLengths(s, i, 1) # {}}
    IN  IF anchors = {}
        THEN res.out = [begin |-> nullptr, end |-> nullptr]
        ELSE /\ res.out.begin = Least(anchors)
             /\ res.out.end = Least(anchors) + Greatest(AcceptedLengths(s, Least(anchors), 1)) - 1

\* a find_first call found a match that is neither at the first character
\* nor the shortest one at its position
C9_Witness ==
  /\ Called("find_first")
  /\ res.out.begin > 1
  /\ Cardinality(AcceptedLengths(res.input, res.out.begin, 1)) > 1

\* C10: the ranges find_many(s) returns are increasing and pairwise
\* non-overlapping: each begins after the last symbol of the one before.
C10_NonOverlapping ==
  (Called("find_many") /\ ~res.out.loops) =>
    \A i, j \in DOMAIN res.out.ranges :
      i < j => res.out.ranges[i].end < res.out.ranges[j].begin

----------------------------------------------------------------------------
(* The generic-builder specification: any program of at most MaxSmOps      *)
(* calls on one generic builder.                                           *)

MaxSmOps == 4     \* builder calls per program
MaxSmNodes == 6   \* stores of at most MaxSmNodes nodes are explored
MaxBackBy == 1    \* largest back_by handed to exit_point

SM == [nodes |-> sm_nodes, cursors |-> sm_cursors, on_conflict |-> on_conflict,
       failed |-> sm_failed]

Policies == {"Skip", "Overwrite", "Error"}

\* the generic-builder call `name` turned the machine into m
SmBecomes(m, name) ==
  /\ ~sm_failed
  /\ nops < MaxSmOps
  /\ Len(m.nodes) <= MaxSmNodes
  /\ sm_nodes' = m.nodes
  /\ sm_cursors' = m.cursors
  /\ on_conflict' = m.on_conflict
  /\ sm_failed' = m.failed
  /\ last' = name
  /\ nops' = nops + 1
  /\ UNCHANGED <<nd, m_nodes, m_cursors, prog, res, returned, vm_vars>>

SmRoot == SmBecomes(sm_root(SM), "root")
SmConflict == \E ca \in Policies : SmBecomes(conflict(SM, ca), "conflict")
SmMatchDefault == SmBecomes(sm_match_default(SM), "match_default")
SmMatchEof == SmBecomes(sm_match_eof(SM), "match_eof")
SmMatchSequence == \E seq \in Words : SmBecomes(sm_match_sequence(SM, seq), "match_sequence")
SmMatchAnyOf == \E options \in Choices : SmBecomes(sm_match_any_of(SM, options), "match_any_of")
SmExitPoint == \E back_by \in 0 .. MaxBackBy : SmBecomes(exit_point(SM, back_by), "exit_point")
SmOptimize == \E outside \in BOOLEAN : SmBecomes(sm_optimize(SM, outside), "optimize")

NextSM ==
  \/ SmRoot
  \/ SmConflict
  \/ SmMatchDefault
  \/ SmMatchEof
  \/ SmMatchSequence
  \/ SmMatchAnyOf
  \/ SmExitPoint
  \/ SmOptimize

SpecSM == Init /\ [][NextSM]_vars

\* C7: a second optimize() leaves the node store and the cursor set as the
\* first optimize() left them (for some outcome of the out-of-range read of
\* nullify_orphans in the second run).
C7_OptimizeIdempotent ==
  (last = "optimize" /\ ~sm_failed) =>
    \E outside \in BOOLEAN :
      LET again == sm_optimize(SM, outside)
      IN  ~again.failed /\ again.nodes = sm_nodes /\ again.cursors = sm_cursors

----------------------------------------------------------------------------
(* The preset specification: the builder programs of presets.h, one call   *)
(* per step, and one full-match call (string mode or file mode) on the     *)
(* machine any prefix of the program has built.  prog is the name of the   *)
(* preset followed by the calls made.                                      *)

Slash == 0        \* '/'
Newline == 1      \* '\n'

\* chr.match_default().terminal().optimize()
chr == optimize(terminal(match_default(NewMachine)))

\* end.match_eof().terminal().goback().match_any_of("\n").terminal().optimize()
end == optimize(terminal(match_any_of(goback(terminal(match_eof(NewMachine))), <<Newline>>)))

\* a call of the preset `preset`, the k-th of its program
PresetStep(preset, k, m, name) ==
  /\ res = NoCall
  /\ IF k = 1 THEN prog = <<>> ELSE Len(prog) = k /\ prog[1] = preset
  /\ Runs(m, name, IF k = 1 THEN <<preset, name>> ELSE Append(prog, name))

CommentSequence ==
  PresetStep("c_like_comment", 1, match_sequence(Machine, <<Slash, Slash>>), "match_sequence")

CommentManyOptionally ==
  \E reloc \in BOOLEAN :
    PresetStep("c_like_comment", 2, match_many_optionally(Machine, chr, reloc),
               "match_many_optionally")

CommentMatchEnd ==
  \E reloc \in BOOLEAN : PresetStep("c_like_comment", 3, match(Machine, end, reloc), "match")

CommentTerminal == PresetStep("c_like_comment", 4, terminal(Machine), "terminal")

\* the digits: every character of the alphabet is a digit, character 0 is '0'
Zero == 0
Digits == [i \in 1 .. NumSyms |-> i - 1]
NonZeroDigits == [i \in 1 .. (NumSyms - 1) |-> i]

match_digit(m) == match_any_of(m, Digits)

\* rg.match_digit().terminal().optimize()
digit == optimize(terminal(match_digit(NewMachine)))

IntegerNonZero ==
  PresetStep("integer", 1, match_any_of(Machine, NonZeroDigits), "match_any_of")

IntegerManyDigits ==
  \E reloc \in BOOLEAN :
    PresetStep("integer", 2, match_many_optionally(Machine, digit, reloc), "match_many_optionally")

IntegerTerminal == PresetStep("integer", 3, terminal(Machine), "terminal")

IntegerGoback == PresetStep("integer", 4, goback(Machine), "goback")

IntegerZero == PresetStep("integer", 5, match_any_of(Machine, <<Zero>>), "match_any_of")

IntegerZeroTerminal == PresetStep("integer", 6, terminal(Machine), "terminal")

IntegerOptimize == PresetStep("integer", 7, optimize(Machine), "optimize")

Matches == \E s \in Inputs : Returns("matches", s, matches(m_nodes, s))
MatchesFilemode == \E s \in Inputs : Returns("matches<true>", s, matches_filemode(m_nodes, s))

\* the program of the preset has run to its end
PresetDone(preset, n) == Len(prog) = n + 1 /\ prog[1] = preset

----------------------------------------------------------------------------
(* Properties of full match in string mode and in file mode *)

\* the node the walk from the root is on after the characters of s, 0 if a
\* transition is missing on the way
RECURSIVE NodeAfter(_, _)
NodeAfter(nodes, s) ==
  IF s = <<>> THEN 1
  ELSE LET n == NodeAfter(nodes, SubSeq(s, 1, Len(s) - 1))
       IN  IF n = 0 THEN 0 ELSE nodes[n].transitions[s[Len(s)]]

\* s opens a comment and has no newline
Unterminated(s) ==
  /\ Len(s) >= 2 /\ s[1] = Slash /\ s[2] = Slash
  /\ \A i \in DOMAIN s : s[i] # Newline

\* C11: matches<true>(s) walks s, takes one EOF transition and accepts iff the
\* node after EOF is accepting; matches<false>(s) accepts iff the node after
\* s itself is accepting (no EOF transition).  The comment machine accepts an
\* unterminated comment in file mode only, and "//\n" in string mode.
C11_FileModeTakesEof ==
  LET n == NodeAfter(m_nodes, res.input)
      e == IF n = 0 THEN 0 ELSE m_nodes[n].transitions[EOFSlot]
  IN  /\ Called("matches<true>") => (res.out <=> (e # 0 /\ can_exit(m_nodes[e])))
      /\ Called("matches") => (res.out <=> (n # 0 /\ can_exit(m_nodes[n])))
      /\ PresetDone("c_like_comment", 4) =>
           /\ (Called("matches<true>") /\ Unterminated(res.input)) => res.out
           /\ (Called("matches") /\ Unterminated(res.input)) => ~res.out
           /\ (Called("matches") /\ res.input = <<Slash, Slash, Newline>>) => res.out

\* the comment machine accepted an unterminated comment with a body in file mode
C11_Witness ==
  /\ PresetDone("c_like_comment", 4)
  /\ Called("matches<true>")
  /\ Unterminated(res.input) /\ Len(res.input) > 2
  /\ res.out

\* C12: the integer preset accepts exactly "0" and the strings of digits that
\* start with a non-zero digit; it rejects the empty string, "00" and every
\* longer string that starts with "0".
C12_IntegerPreset ==
  (PresetDone("integer", 7) /\ Called("matches")) =>
    (res.out <=> (res.input = <<Zero>> \/ (res.input # <<>> /\ res.input[1] # Zero)))

\* the integer machine rejected a string of several digits that starts with "0"
C12_Witness ==
  /\ PresetDone("integer", 7)
  /\ Called("matches")
  /\ Len(res.input) > 1 /\ res.input[1] = Zero
  /\ ~res.out

NextPreset ==
  \/ CommentSequence
  \/ CommentManyOptionally
  \/ CommentMatchEnd
  \/ CommentTerminal
  \/ IntegerNonZero
  \/ IntegerManyDigits
  \/ IntegerTerminal
  \/ IntegerGoback
  \/ IntegerZero
  \/ IntegerZeroTerminal
  \/ IntegerOptimize
  \/ Matches
  \/ MatchesFilemode

SpecPreset == Init /\ [][NextPreset]_vars

----------------------------------------------------------------------------
(* Invariants of the generic builder *)

\* C13: after every generic-builder call that returns, the root exists,
\* every non-zero transition is a handle of the store and every cursor is a
\* handle of the store (never 0).
C13_WellFormed ==
  ~sm_failed =>
    /\ Len(sm_nodes) >= 1
    /\ \A h \in DOMAIN sm_nodes, k \in SmSlots : sm_nodes[h].transitions[k] \in 0 .. Len(sm_nodes)
    /\ \A i \in DOMAIN sm_cursors : sm_cursors[i] \in 1 .. Len(sm_nodes)

\* C14: optimize() leaves every cursor on a node of the compacted store (or
\* the cursor set {root}): no cursor is 0 or beyond the store, and the cursors
\* are not all dropped when one of them stood on a node reachable from the
\* root.  Stated of the optimize() call the current machine would make, for
\* some outcome of the out-of-range read of nullify_orphans.
C14_CursorsSurvive ==
  (~sm_failed /\ ~InSeq(sm_cursors, 0)) =>
    \E outside \in BOOLEAN :
      LET o == sm_optimize(SM, outside)
      IN  \/ o.cursors = <<1>>
          \/ /\ \A i \in DOMAIN o.cursors : o.cursors[i] \in 1 .. Len(o.nodes)
             /\ (\E i \in DOMAIN sm_cursors : sm_cursors[i] \in sm_reach_from(sm_nodes, {1}))
                  => o.cursors # <<>>

----------------------------------------------------------------------------
(* Invariants of the optimized store *)

\* the handles that a walk from the root along transitions can reach
RECURSIVE ReachableFromRoot(_, _)
ReachableFromRoot(transitions_of, seen) ==
  LET more == seen \cup ({transitions_of[h][k] : h \in seen, k \in DOMAIN transitions_of[1]} \ {0})
  IN  IF more = seen THEN seen ELSE ReachableFromRoot(transitions_of, more)

\* C15: after optimize() on the byte builder every non-root node of the store
\* is reachable from the root.
C15_NoOrphans ==
  (last = "optimize" /\ returned) =>
    \A h \in 2 .. Len(m_nodes) :
      h \in ReachableFromRoot([i \in DOMAIN m_nodes |-> m_nodes[i].transitions], {1})

\* C16: after optimize() on the generic builder the store has no null node
\* other than the root and the nodes that hold a cursor.  Stated of the
\* optimize() call the current machine would make, for some outcome of the
\* out-of-range read of nullify_orphans.
C16_NoNullNodes ==
  (~sm_failed /\ ~InSeq(sm_cursors, 0)) =>
    \E outside \in BOOLEAN :
      LET o == sm_optimize(SM, outside)
      IN  \A h \in 2 .. Len(o.nodes) : sm_is_null(o.nodes[h]) => InSeq(o.cursors, h)

\* Behavioural equivalence of the nodes of a store.  acc[h] is what node h
\* accepts with, tr[h][k] its transition on k; handle 0 stands for the dead
\* state.  Refine removes the pairs that some transition leads out of the
\* relation, until none is left to remove.
RECURSIVE Refine(_, _)
Refine(tr, rel) ==
  LET keep == {pr \in rel : \A k \in DOMAIN tr[0] : <<tr[pr[1]][k], tr[pr[2]][k]>> \in rel}
  IN  IF keep = rel THEN rel ELSE Refine(tr, keep)

Equivalent(acc, tr) ==
  Refine(tr, {pr \in (DOMAIN acc) \X (DOMAIN acc) : acc[pr[1]] = acc[pr[2]]})

\* C17: after optimize() no two distinct non-null nodes of the store are
\* behaviourally equivalent, nodes on cycles included (byte builder).
C17_NoEquivalentNodes ==
  (last = "optimize" /\ returned) =>
    LET acc == [h \in 0 .. Len(m_nodes) |-> IF h = 0 THEN FALSE ELSE m_nodes[h].terminal]
        tr  == [h \in 0 .. Len(m_nodes) |->
                  IF h = 0 THEN [k \in Slots |-> 0] ELSE m_nodes[h].transitions]
    IN  \A x, y \in DOMAIN m_nodes :
          (x < y /\ ~is_null(m_nodes[x]) /\ ~is_null(m_nodes[y])) =>
            <<x, y>> \notin Equivalent(acc, tr)

----------------------------------------------------------------------------
(* The valued specification: any program of at most MaxVmOps builder calls *)
(* on one valued byte builder whose store stays within MaxVmNodes nodes.   *)

MaxVmOps == 6
MaxVmNodes == 4

VM == [nodes |-> vm_nodes, cursors |-> vm_cursors, on_conflict |-> vm_on_conflict, failed |-> vm_failed]

\* the builder call `name` turned the valued machine into vm
VmBecomes(vm, name) ==
  /\ ~vm_failed
  /\ nops < MaxVmOps
  /\ Len(vm.nodes) <= MaxVmNodes
  /\ vm_nodes' = vm.nodes
  /\ vm_cursors' = vm.cursors
  /\ vm_on_conflict' = vm.on_conflict
  /\ vm_failed' = vm.failed
  /\ last' = name
  /\ nops' = nops + 1
  /\ UNCHANGED <<nd, m_nodes, m_cursors, prog, res, returned, sm_vars>>

VmMatchSequence == \E seq \in Words : VmBecomes(vm_match_sequence(VM, seq), "match_sequence")
VmMatchAnyOf == \E choices \in Choices : VmBecomes(vm_match_any_of(VM, choices), "match_any_of")
VmGoback == VmBecomes(vm_goback(VM), "goback")
VmConflict == \E c \in Policies : VmBecomes(vm_conflict(VM, c), "conflict")
VmCommit == \E value \in Values : VmBecomes(commit(VM, value), "commit")
VmCommitContinue == \E value \in Values : VmBecomes(commit_continue(VM, value), "commit_continue")

NextVal ==
  \/ VmMatchSequence
  \/ VmMatchAnyOf
  \/ VmGoback
  \/ VmConflict
  \/ VmCommit
  \/ VmCommitContinue

SpecVal == Init /\ [][NextVal]_vars

\* a commit or commit_continue call is being made
Committing == nops' = nops + 1 /\ last' \in {"commit", "commit_continue"}

\* some cursor designates a node that carries a value
CursorOnValue == \E i \in DOMAIN vm_cursors : vm_nodes[vm_cursors[i]].value # NoValue

\* C18: commit(v) and commit_continue(v) fail exactly when the policy is
\* Error and some cursor node already carries a value; otherwise they give
\* every cursor node without a value the value v, and a cursor node with a
\* value keeps it under Skip and gets v under Overwrite; a fresh builder
\* has the policy Error.
C18_CommitHonoursPolicy ==
  [][/\ nops = 0 => vm_on_conflict = "Error"
     /\ Committing =>
       /\ vm_failed' <=> (vm_on_conflict = "Error" /\ CursorOnValue)
       /\ ~vm_failed' =>
            \E v \in Values :
              \A i \in DOMAIN vm_cursors :
                LET cur == vm_cursors[i]
                IN  vm_nodes'[cur].value =
                      IF vm_nodes[cur].value = NoValue \/ vm_on_conflict = "Overwrite"
                      THEN ValueOf(v)
                      ELSE vm_nodes[cur].value]_vars

----------------------------------------------------------------------------
(* The conflict specification: any program of at most MaxCfOps             *)
(* construction calls on one generic builder whose store stays within      *)
(* MaxCfNodes nodes; optimize() is not called.                             *)

MaxCfOps == 6
MaxCfNodes == 9

\* the generic-builder call `name` turned the machine into m
CfBecomes(m, name) ==
  /\ ~sm_failed
  /\ nops < MaxCfOps
  /\ Len(m.nodes) <= MaxCfNodes
  /\ sm_nodes' = m.nodes
  /\ sm_cursors' = m.cursors
  /\ on_conflict' = m.on_conflict
  /\ sm_failed' = m.failed
  /\ last' = name
  /\ nops' = nops + 1
  /\ UNCHANGED <<nd, m_nodes, m_cursors, prog, res, returned, vm_vars>>

CfRoot == CfBecomes(sm_root(SM), "root")
CfConflict == \E ca \in Policies : CfBecomes(conflict(SM, ca), "conflict")
CfMatchDefault == CfBecomes(sm_match_default(SM), "match_default")
CfMatchSequence == \E seq \in Words : CfBecomes(sm_match_sequence(SM, seq), "match_sequence")
CfMatchAnyOf == \E options \in Choices : CfBecomes(sm_match_any_of(SM, options), "match_any_of")
CfExitPoint == \E back_by \in 0 .. MaxBackBy : CfBecomes(exit_point(SM, back_by), "exit_point")

NextConflict ==
  \/ CfRoot
  \/ CfConflict
  \/ CfMatchDefault
  \/ CfMatchSequence
  \/ CfMatchAnyOf
  \/ CfExitPoint

SpecConflict == Init /\ [][NextConflict]_vars

\* a call of the generic builder is being made on cursors that get_node accepts
SmCalling(name) == nops' = nops + 1 /\ last' = name /\ ~get_node_asserts(SM)

\* some cursor designates a node whose default slot is taken
CursorOnDefault == \E i \in DOMAIN sm_cursors : sm_nodes[sm_cursors[i]].transitions[DefSlot] # 0

\* some cursor designates an accepting node whose back_by is not back_by
CursorOnOtherBackBy(back_by) ==
  \E i \in DOMAIN sm_cursors : sm_nodes[sm_cursors[i]].value \notin {NoValue, ValueOf(back_by)}

\* C19: under Skip or Overwrite no call of the generic builder fails; under
\* Error, match_default() fails exactly when some cursor already has its
\* default slot taken, and exit_point(b) fails exactly when some cursor is
\* already accepting with a back_by other than b.
C19_ConflictOnlyUnderError ==
  [][/\ (nops' = nops + 1 /\ ~get_node_asserts(SM) /\ on_conflict \in {"Skip", "Overwrite"})
          => ~sm_failed'
     /\ (SmCalling("match_default") /\ on_conflict = "Error")
          => (sm_failed' <=> CursorOnDefault)
     /\ (SmCalling("exit_point") /\ on_conflict = "Error")
          => \E back_by \in 0 .. MaxBackBy :
               /\ sm_failed' <=> CursorOnOtherBackBy(back_by)
               /\ ~sm_failed' =>
                    \A i \in DOMAIN sm_cursors : sm_nodes'[sm_cursors[i]].value = ValueOf(back_by)]_vars

----------------------------------------------------------------------------
(* The frame specification: a pure-regex byte builder and a valued byte    *)
(* builder side by side, each driven by its cursor-moving and its marking  *)
(* calls.                                                                  *)

NextFrame ==
  \/ MatchSequence
  \/ MatchAnyOf
  \/ Terminal
  \/ Goback
  \/ VmMatchSequence
  \/ VmMatchAnyOf
  \/ VmGoback
  \/ VmConflict
  \/ VmCommit
  \/ VmCommitContinue

SpecFrame == Init /\ [][NextFrame]_vars

\* no transition slot of the pure-regex builder changes
SameTransitions ==
  /\ Len(m_nodes') = Len(m_nodes)
  /\ \A h \in DOMAIN m_nodes : m_nodes'[h].transitions = m_nodes[h].transitions

\* no transition slot of the valued builder changes
VmSameTransitions ==
  /\ Len(vm_nodes') = Len(vm_nodes)
  /\ \A h \in DOMAIN vm_nodes : vm_nodes'[h].transitions = vm_nodes[h].transitions

\* C20: a commit(value) or goback() that returns leaves the cursors at
\* {root}; a commit_continue(value) or terminal() that returns leaves the
\* cursors as they were; none of the four changes a transition slot.
C20_MarkingCallsFrame ==
  [][(nops' = nops + 1) =>
       /\ (last' = "commit" /\ ~vm_failed') => (vm_cursors' = <<1>> /\ VmSameTransitions)
       /\ (last' = "commit_continue" /\ ~vm_failed') => (vm_cursors' = vm_cursors /\ VmSameTransitions)
       /\ (last' = "terminal" /\ returned') => (m_cursors' = m_cursors /\ SameTransitions)
       /\ (last' = "goback" /\ returned' /\ ~vm_failed') =>
            \/ m_cursors' = <<1>> /\ SameTransitions /\ UNCHANGED vm_vars
            \/ vm_cursors' = <<1>> /\ VmSameTransitions /\ UNCHANGED <<m_nodes, m_cursors>>]_vars

\* a commit has returned from cursors away from the root, and the pure-regex
\* builder has been marked accepting away from its root
C20_Witness ==
  /\ last = "commit"
  /\ ~vm_failed
  /\ vm_cursors = <<1>>
  /\ \E h \in 2 .. Len(vm_nodes) : vm_nodes[h].value # NoValue
  /\ \E h \in 2 .. Len(m_nodes) : m_nodes[h].terminal /\ InSeq(m_cursors, h)

----------------------------------------------------------------------------
(* The reading specification: a program of at most MaxReadOps builder      *)
(* calls, then at most MaxReads matching calls, in any order, on the       *)
(* machine it built.  prog records each matching call with its input and   *)
(* what it returned.                                                       *)

MaxReadOps == 2
MaxReads == 2
MaxReadInput == 2

ReadInputs == SeqsUpTo(Chars, MaxReadInput)

\* a matching call that, besides returning, puts the cursors back on the root
ReadsAndRewinds(call, input, out) ==
  /\ returned
  /\ Len(prog) < MaxReads
  /\ prog' = Append(prog, [call |-> call, input |-> input, out |-> out])
  /\ m_cursors' = <<1>>
  /\ UNCHANGED <<nd, m_nodes, last, nops, res, returned, sm_vars, vm_vars>>

\* the matching call `call` ran on `input` and returned `out`: the members
\* matches, lookup, find_first and find_many assign to locals only
Reads(call, input, out) ==
  /\ returned
  /\ Len(prog) < MaxReads
  /\ prog' = Append(prog, [call |-> call, input |-> input, out |-> out])
  /\ UNCHANGED <<nd, m_nodes, m_cursors, last, nops, res, returned, sm_vars, vm_vars>>

ReadMatches == \E s \in ReadInputs : Reads("matches", s, matches(m_nodes, s))
ReadMatchesFilemode == \E s \in ReadInputs : Reads("matches<true>", s, matches_filemode(m_nodes, s))
ReadLookup == \E s \in ReadInputs : Reads("lookup", s, lookup(m_nodes, s))
ReadFindFirst == \E s \in ReadInputs : Reads("find_first", s, find_first(m_nodes, s))
ReadFindMany == \E s \in ReadInputs : Reads("find_many", s, find_many(m_nodes, s))

BuildToRead == prog = <<>> /\ nops < MaxReadOps /\ Next

NextRead ==
  \/ BuildToRead
  \/ ReadMatches
  \/ ReadMatchesFilemode
  \/ ReadLookup
  \/ ReadFindFirst
  \/ ReadFindMany

SpecRead == Init /\ [][NextRead]_vars

\* what the matching call `call` returns for `input` when it runs alone on the store `nodes`
Alone(call, nodes, input) ==
  CASE call = "matches" -> matches(nodes, input)
    [] call = "matches<true>" -> matches_filemode(nodes, input)
    [] call = "lookup" -> lookup(nodes, input)
    [] call = "find_first" -> find_first(nodes, input)
    [] call = "find_many" -> find_many(nodes, input)

----------------------------------------------------------------------------
\* no cursor of the generic builder has a transition on a character
CursorsWithoutCharTransitions ==
  \A i \in DOMAIN sm_cursors, k \in Chars : sm_nodes[sm_cursors[i]].transitions[k] = 0

\* C22: a match_any_of(choices) made when no cursor has a transition on any
\* of the choices adds exactly one node to the store; every choice leads
\* from every cursor to that node, and it is the only cursor afterwards.
C22_AnyOfSingleDestination ==
  [][(SmCalling("match_any_of") /\ CursorsWithoutCharTransitions) =>
       LET fresh == Len(sm_nodes) + 1
       IN  /\ ~sm_failed'
           /\ Len(sm_nodes') = fresh
           /\ sm_cursors' = <<fresh>>
           /\ \A i \in DOMAIN sm_cursors, k \in Chars :
                sm_nodes'[sm_cursors[i]].transitions[k] \in {0, fresh}
           /\ \E k \in Chars :
                \A i \in DOMAIN sm_cursors : sm_nodes'[sm_cursors[i]].transitions[k] = fresh]_vars

----------------------------------------------------------------------------
\* the cursors of the byte builder that have a destination on k
CursorsWith(k) == SelectSeq(m_cursors, LAMBDA c : m_nodes[c].transitions[k] # 0)

\* the cursors of the byte builder that lack a transition on k
CursorsWithout(k) == SelectSeq(m_cursors, LAMBDA c : m_nodes[c].transitions[k] = 0)

\* C23: from every machine the builder can be in and for every slot k,
\* cursor_transition(k) allocates one fresh node if some cursor lacks k and
\* none otherwise; every cursor lacking k then points to the fresh node on
\* k; the new cursor list is the fresh node (if allocated) followed by the
\* destinations the other cursors already had; every other slot and every
\* accepting flag is as before.  A match_sequence(s) made from the root a
\* second time adds no node and ends on the same cursors.
C23_CursorTransitionFrame ==
  returned =>
    /\ \A k \in Slots :
         LET after == cursor_transition(Machine, k)
             fresh == Len(m_nodes) + 1
             grows == CursorsWithout(k) # <<>>
         IN  /\ Len(after.nodes) = IF grows THEN fresh ELSE Len(m_nodes)
             /\ grows => after.nodes[fresh] = NullNode
             /\ after.cursors =
                  (IF grows THEN <<fresh>> ELSE <<>>) \o
                  [i \in DOMAIN CursorsWith(k) |-> m_nodes[CursorsWith(k)[i]].transitions[k]]
             /\ \A h \in DOMAIN m_nodes :
                  /\ after.nodes[h].terminal = m_nodes[h].terminal
                  /\ after.nodes[h].consume_char = m_nodes[h].consume_char
                  /\ \A j \in Slots :
                       after.nodes[h].transitions[j] =
                         IF j = k /\ InSeq(CursorsWithout(k), h) THEN fresh
                         ELSE m_nodes[h].transitions[j]
    /\ \A s \in Words :
         LET once == match_sequence(goback(Machine), s)
             twice == match_sequence(goback(once), s)
         IN  twice.nodes = once.nodes /\ twice.cursors = once.cursors

\* the cursors are several nodes, some with and some without a transition on one slot
C23_Witness ==
  /\ returned
  /\ \E k \in Slots : Len(CursorsWith(k)) > 0 /\ Len(CursorsWithout(k)) > 1

----------------------------------------------------------------------------
\* C24: a match_default() of the generic builder that does not fail leaves
\* the fresh node as the only cursor, under every policy; a cursor whose
\* default slot was empty gets the fresh node there; a default slot already
\* set is kept under Skip and replaced by the fresh node under Overwrite;
\* no value-keyed slot and no EOF slot changes.
C24_MatchDefaultCursors ==
  [][(SmCalling("match_default") /\ ~sm_failed') =>
       LET fresh == Len(sm_nodes) + 1
       IN  /\ Len(sm_nodes') = fresh
           /\ Range(sm_cursors') = {fresh}
           /\ \A i \in DOMAIN sm_cursors :
                LET deflt == sm_nodes[sm_cursors[i]].transitions[DefSlot]
                IN  sm_nodes'[sm_cursors[i]].transitions[DefSlot] =
                      IF deflt # 0 /\ on_conflict = "Skip" THEN deflt ELSE fresh
           /\ \A h \in DOMAIN sm_nodes, k \in 0 .. EOFSlot :
                sm_nodes'[h].transitions[k] = sm_nodes[h].transitions[k]]_vars

----------------------------------------------------------------------------
\* the pattern that accepts the empty word and a
PatOptA == terminal(match_sequence(terminal(NewMachine), <<0>>))

\* the words that lead from the root to a cursor
CursorWords == {a \in Inputs : NodeAfter(m_nodes, a) # 0 /\ InSeq(m_cursors, NodeAfter(m_nodes, a))}

\* every cursor is the node that some word leads to from the root
CursorsAreReached == \A i \in DOMAIN m_cursors : \E a \in Inputs : NodeAfter(m_nodes, a) = m_cursors[i]

\* C25: when the cursors are the nodes that the words of A lead to, a
\* match(p).terminal() that returns makes the machine accept what it
\* accepted before together with the words a w, a in A and w accepted by
\* p, and nothing else (words of at most MaxInput characters).
C25_Concatenation ==
  (returned /\ CursorsAreReached) =>
    \A reloc \in BOOLEAN, p \in Range(Patterns) \cup {PatOptA} :
      LET after == terminal(match(Machine, p, reloc))
      IN  after.returns =>
            Accepted(after.nodes) = Accepted(m_nodes) \cup Cat(CursorWords, Accepted(p.nodes))

----------------------------------------------------------------------------
(* The linking specification: any program of at most MaxLkOps calls on one *)
(* generic builder, match and match_many_optionally of a sub-pattern       *)
(* included, whose store stays within MaxLkNodes nodes.  A call that does  *)
(* not return ends the program like a PANIC does.                          *)

MaxLkOps == 4
MaxLkNodes == 9

\* sub-patterns: regex machines built with the same builder
SmPatA == exit_point(sm_match_sequence(SmNew, <<0>>), 0)                          \* a
SmPatAB == exit_point(sm_match_sequence(SmNew, <<0, 1>>), 0)                      \* ab
SmPatAAA == exit_point(sm_match_sequence(exit_point(sm_match_sequence(SmNew, <<0>>), 0), <<0>>), 0)  \* a|aa

SmPatterns == <<SmPatA, SmPatAB, SmPatAAA>>

\* the generic-builder call `name` gave the result r = [machine, returns]
LkBecomes(r, name) ==
  /\ ~sm_failed
  /\ nops < MaxLkOps
  /\ Len(r.machine.nodes) <= MaxLkNodes
  /\ sm_nodes' = r.machine.nodes
  /\ sm_cursors' = r.machine.cursors
  /\ on_conflict' = r.machine.on_conflict
  /\ sm_failed' = (r.machine.failed \/ ~r.returns)
  /\ last' = name
  /\ nops' = nops + 1
  /\ UNCHANGED <<nd, m_nodes, m_cursors, prog, res, returned, vm_vars>>

Returned(m) == [machine |-> m, returns |-> TRUE]

LkRoot == LkBecomes(Returned(sm_root(SM)), "root")
LkMatchSequence == \E seq \in Words : LkBecomes(Returned(sm_match_sequence(SM, seq)), "match_sequence")
LkExitPoint == LkBecomes(Returned(exit_point(SM, 0)), "exit_point")
LkMatch == \E p \in DOMAIN SmPatterns : LkBecomes(sm_match(SM, SmPatterns[p]), "match")
LkMatchManyOptionally ==
  \E p \in DOMAIN SmPatterns :
    LkBecomes(sm_match_many_optionally(SM, SmPatterns[p]), "match_many_optionally")

NextLink ==
  \/ LkRoot
  \/ LkMatchSequence
  \/ LkExitPoint
  \/ LkMatch
  \/ LkMatchManyOptionally

SpecLink == Init /\ [][NextLink]_vars

----------------------------------------------------------------------------
(* Trivial cases of linking, byte builder *)

\* the result of one make_nonambiguous_link(from, k, to, W) on the store of
\* the byte builder, W being {to} or empty
LinkOn(from, k, to, watched, reloc) ==
  make_nonambiguous_link(m_nodes, from, k, to, IF watched THEN <<to>> ELSE <<>>, reloc, {})

\* C26: the trivial cases of non-ambiguous linking change nothing more than
\* needed.  When `from` has no transition on k the call sets from.k = to,
\* creates no node and returns an empty list; when from.k is already `to` the
\* call changes no slot, creates no node and returns an empty list.
C26_TrivialLinks ==
  \A from \in DOMAIN m_nodes, to \in DOMAIN m_nodes, k \in Slots, watched \in BOOLEAN, reloc \in BOOLEAN :
    LET r == LinkOn(from, k, to, watched, reloc) IN
    /\ m_nodes[from].transitions[k] = 0 =>
         /\ r.returns
         /\ r.nodes = SetTransition(m_nodes, from, k, to)
         /\ r.tracked = <<>>
    /\ m_nodes[from].transitions[k] = to =>
         /\ r.returns
         /\ r.nodes = m_nodes
         /\ r.tracked = <<>>

----------------------------------------------------------------------------
(* Linking in the generic builder: what a link writes *)

\* the stores on which match(p) and match_many_optionally(p) make their
\* links: the pattern's nodes are consumed into the store first, and
\* match_many_optionally links the pattern's terminals back into it
StoreConsumed(p) == consume_regex_except_root(sm_nodes, SmPatterns[p])

StoreCycled(p) ==
  LET new_root == sm_new_root_transitions(SmPatterns[p], StoreConsumed(p).base_index)
  IN  sm_links(StoreConsumed(p).nodes,
               LinksOf(StoreConsumed(p).terminals, sm_get_transitions(new_root), new_root.transitions, TRUE),
               <<>>, FALSE, on_conflict)

\* a link on `nodes` that returned left every node it found, other than
\* the slot k of `from`, as it was
LinkWritesOnly(nodes, from, k, to) ==
  LET r == sm_make_nonambiguous_link(nodes, from, k, to, <<>>, on_conflict, MaxLinkDepth) IN
  (r.returns /\ ~r.failed) =>
    /\ Len(r.nodes) >= Len(nodes)
    /\ \A h \in DOMAIN nodes :
         /\ r.nodes[h].value = nodes[h].value
         /\ \A c \in SmSlots : (h # from \/ c # k) => r.nodes[h].transitions[c] = nodes[h].transitions[c]

----------------------------------------------------------------------------
(* Linking in the generic builder: termination *)

\* C28: linking into Kleene-installed cycles terminates.  Every match and
\* every match_many_optionally of a sub-pattern returns, whatever calls
\* came before it, the cursors lying on a cycle over the keys of the
\* pattern included.
C28_LinkingTerminates ==
  ~sm_failed =>
    \A p \in DOMAIN SmPatterns :
      /\ sm_match(SM, SmPatterns[p]).returns
      /\ sm_match_many_optionally(SM, SmPatterns[p]).returns


\* no node reachable from `to` lies on a cycle
AcyclicFrom(nodes, to) ==
  \A h \in sm_reach_from(nodes, {to}) :
    h \notin sm_reach_from(nodes, {nodes[h].transitions[k] : k \in SmSlots} \ {0})

\* the number of paths out of h (the empty path included), h not on a cycle
RECURSIVE PathsOut(_, _), PathsOutFrom(_, _, _)
PathsOut(nodes, h) == 1 + PathsOutFrom(nodes, h, 0)

PathsOutFrom(nodes, h, k) ==
  IF k > DefSlot THEN 0
  ELSE (IF nodes[h].transitions[k] = 0 THEN 0 ELSE PathsOut(nodes, nodes[h].transitions[k]))
       + PathsOutFrom(nodes, h, k + 1)

\* a link on `nodes` to an acyclic target returns, with at most one clone
\* per path out of the target
LinkBounded(nodes, from, k, to) ==
  LET r == sm_make_nonambiguous_link(nodes, from, k, to, <<>>, on_conflict, MaxLinkDepth) IN
  AcyclicFrom(nodes, to) =>
    /\ r.returns
    /\ Len(r.nodes) - Len(nodes) <= PathsOut(nodes, to)

\* C29: make_nonambiguous_link terminates whenever the sub-graph reachable
\* from `to` is acyclic, whatever the host graph (hosts with cycles
\* included), and creates at most as many clones as there are paths out of
\* `to`: for every link on the store between calls and for the links from
\* a cursor to an entry of a consumed pattern.
C29_AcyclicTargetTerminates ==
  /\ \A from \in DOMAIN sm_nodes, to \in DOMAIN sm_nodes, k \in SmSlots :
       LinkBounded(sm_nodes, from, k, to)
  /\ \A p \in DOMAIN SmPatterns, from \in Range(sm_cursors), k \in SmSlots :
       LET to == sm_new_root_transitions(SmPatterns[p], StoreConsumed(p).base_index).transitions[k]
       IN  to # 0 => LinkBounded(StoreConsumed(p).nodes, from, k, to)

\* a link from a node on a cycle to an acyclic target of several nodes,
\* which clones more than once
C29_Witness ==
  \E from \in DOMAIN sm_nodes, to \in DOMAIN sm_nodes, k \in SmSlots :
    LET r == sm_make_nonambiguous_link(sm_nodes, from, k, to, <<>>, on_conflict, MaxLinkDepth) IN
    /\ ~sm_failed
    /\ from \in sm_reach_from(sm_nodes, {sm_nodes[from].transitions[c] : c \in SmSlots} \ {0})
    /\ AcyclicFrom(sm_nodes, to)
    /\ PathsOut(sm_nodes, to) >= 2
    /\ r.returns /\ ~r.failed
    /\ Len(r.nodes) - Len(sm_nodes) >= 2

----------------------------------------------------------------------------
(* Linking in the generic builder: the merge node *)

\* C30: in the conflict case of make_nonambiguous_link (from.k = D, D set
\* and not `to`) the merge node M starts as a copy of D in which every slot
\* that held D holds M, and after the link every slot of M on a key absent
\* from `to` that looped on M holds D again: on the keys that `to` has no
\* transition for, M has the slots of D and no self-loop.
C30_MergeNode ==
  \A from \in DOMAIN sm_nodes, to \in DOMAIN sm_nodes, k \in SmSlots :
    LET D == sm_nodes[from].transitions[k]
        M == Len(sm_nodes) + 1
        r == sm_make_nonambiguous_link(sm_nodes, from, k, to, <<>>, on_conflict, MaxLinkDepth)
    IN  (D # 0 /\ D # to /\ r.returns /\ ~r.failed) =>
          /\ r.nodes[from].transitions[k] = M
          /\ \A c \in SmSlots :
               sm_clone(sm_nodes, D, M)[M].transitions[c] =
                 IF sm_nodes[D].transitions[c] = D THEN M ELSE sm_nodes[D].transitions[c]
          /\ \A c \in SmSlots :
               sm_nodes[to].transitions[c] = 0 =>
                 /\ r.nodes[M].transitions[c] # M
                 /\ r.nodes[M].transitions[c] = sm_nodes[D].transitions[c]

----------------------------------------------------------------------------
(* Cursors after match_many_optionally, generic builder *)

\* the clones that the links of match_many_optionally(p) create in place of
\* a host image of an accepting node of p: the same links, made with the
\* images T as watch list
MmoReplacements(p) ==
  LET T == StoreConsumed(p).terminals
      new_root == sm_new_root_transitions(SmPatterns[p], StoreConsumed(p).base_index)
      keys == sm_get_transitions(new_root)
      cycle == sm_links(StoreConsumed(p).nodes, LinksOf(T, keys, new_root.transitions, TRUE),
                        T, TRUE, on_conflict)
      entry == sm_links(cycle.nodes, LinksOf(sm_cursors, keys, new_root.transitions, TRUE),
                        cycle.terminals, TRUE, on_conflict)
  IN  Range(entry.terminals) \ Range(T)

\* C31: after match_many_optionally(p) the cursor set is the union of the
\* cursors before the call, the host images T of the accepting nodes of p
\* and the clones that linking created in place of a member of T.
C31_KleeneCursors ==
  ~sm_failed =>
    \A p \in DOMAIN SmPatterns :
      LET r == sm_match_many_optionally(SM, SmPatterns[p]) IN
      (r.returns /\ ~r.machine.failed) =>
        Range(r.machine.cursors) =
          Range(sm_cursors) \cup Range(StoreConsumed(p).terminals) \cup MmoReplacements(p)

----------------------------------------------------------------------------
(* Duplicate fusion in the generic builder *)

\* the nodes remove_duplicates_once would fuse something into, on the
\* store as it is
Fusing ==
  {n \in 2 .. Len(sm_nodes) :
     /\ ~(sm_is_null(sm_nodes[n]) /\ n \notin Range(sm_cursors))
     /\ matchers(sm_nodes, Range(sm_cursors), n) # {}}

\* the first node the reverse pass fuses into, and the nodes it replaces
FirstFused == CHOOSE n \in Fusing : \A o \in Fusing : o <= n
FirstReplaced == matchers(sm_nodes, Range(sm_cursors), FirstFused)

CursorsInStore == \A i \in DOMAIN sm_cursors : sm_cursors[i] \in DOMAIN sm_nodes

\* C32: remove_duplicates_once fuses a node n with an earlier node m only
\* if both are non-null, have equal accepting values and the same
\* transition on every key (the keys on which only m has a transition
\* included), a slot where n points to n and m to m counting as equal;
\* afterwards every edge that pointed to m points to n and m is null.
C32_FusionOnlyOfEqualNodes ==
  (~sm_failed /\ CursorsInStore /\ Fusing # {}) =>
    \A m \in FirstReplaced :
      LET n == FirstFused
          fused == sm_fuse(sm_nodes, FirstReplaced, n)
      IN  /\ ~sm_is_null(sm_nodes[n]) /\ ~sm_is_null(sm_nodes[m])
          /\ sm_nodes[n].value = sm_nodes[m].value
          /\ \A k \in SmSlots :
               \/ sm_nodes[n].transitions[k] = sm_nodes[m].transitions[k]
               \/ (sm_nodes[n].transitions[k] = n /\ sm_nodes[m].transitions[k] = m)
          /\ sm_is_null(fused[m])
          /\ \A h \in DOMAIN sm_nodes, k \in SmSlots :
               sm_nodes[h].transitions[k] = m /\ h \notin FirstReplaced => fused[h].transitions[k] = n

\* the fusions one call of remove_duplicates_once makes on the store as it is
Fusions == sm_fusions_from(sm_nodes, Range(sm_cursors), Len(sm_nodes))

\* C33: remove_duplicates_once never fuses two nodes of which exactly one
\* carries a cursor, and the node that survives a fusion is a cursor
\* after the call exactly if it was one before the fusion.
C33_FusionKeepsCursors ==
  (~sm_failed /\ CursorsInStore) =>
    LET r == sm_remove_duplicates_once(sm_nodes, sm_cursors)
    IN  \A i \in DOMAIN Fusions :
          LET f == Fusions[i]
          IN  /\ \A m \in f.olds : (m \in f.cursors) = (f.node \in f.cursors)
              /\ (f.node \in Range(r.cursors)) = (f.node \in f.cursors)
              /\ (f.node \in f.cursors) = (f.node \in Range(sm_cursors))

\* a call fuses two cursor nodes, and refuses a pair of nodes with equal
\* value and equal transitions of which exactly one is a cursor
C33_Witness ==
  /\ ~sm_failed /\ CursorsInStore
  /\ \E i \in DOMAIN Fusions : Fusions[i].node \in Fusions[i].cursors
  /\ \E n \in 2 .. Len(sm_nodes), m \in 2 .. Len(sm_nodes) :
        /\ m < n
        /\ ~sm_is_null(sm_nodes[n]) /\ ~sm_is_null(sm_nodes[m])
        /\ (m \in Range(sm_cursors)) # (n \in Range(sm_cursors))
        /\ sm_nodes[n].value = sm_nodes[m].value
        /\ sm_transitions_equal(sm_nodes[n], n, sm_nodes[m], m)
        /\ \A i \in DOMAIN Fusions : ~(Fusions[i].node = n /\ m \in Fusions[i].olds)

\* C36: find_many(s) ends on every finite input and every machine: after
\* each match the search position is strictly greater than before, also
\* after a match of one symbol (begin = end), so no iteration of its loop
\* repeats the one before.
C36_FindManyTerminates ==
  Called("find_many") =>
    /\ ~res.out.loops
    /\ \A i \in DOMAIN res.out.ranges :
         res.out.ranges[i].end > (IF i = 1 THEN 1 ELSE res.out.ranges[i - 1].end)

----------------------------------------------------------------------------
(* The node specification: the calls of the node interface, made on a     *)
(* map-backed node and on a byte-array node in step, the accepting value   *)
(* of a second node, and the UTF-8 scalars match_any_of installs.          *)

NdBecomes(next) ==
  /\ nd' = next
  /\ UNCHANGED <<m_nodes, m_cursors, last, nops, prog, res, returned, sm_vars, vm_vars>>

\* node.transition(key) = to
NdWrite ==
  \E key \in NdKeys, to \in 0 .. MaxNdHandle :
    NdBecomes([nd EXCEPT !.map = map_write(nd.map, key, to),
                         !.arr = [nd.arr EXCEPT !.transitions[arr_slot(key)] = to]])

\* a read of node.transition(key)
NdRead == \E key \in NdKeys : NdBecomes([nd EXCEPT !.map = map_transition(nd.map, key)])

\* node.value = v
NdValue ==
  \E v \in NodeValues : NdBecomes([nd EXCEPT !.map = [nd.map EXCEPT !.value = <<v>>],
                                          !.arr = [nd.arr EXCEPT !.value = <<v>>]])

\* node.nullify()
NdNullify == NdBecomes([nd EXCEPT !.map = map_nullify(nd.map), !.arr = sm_nullify(nd.arr)])

\* the second node gets its value
NdOther == \E v \in OptionalValues : NdBecomes([nd EXCEPT !.other = v])

\* match_any_of({scalar}) on a UTF-8 builder
NdInstall ==
  \E key \in Utf8Scalars :
    NdBecomes([nd EXCEPT !.scalar = key, !.written = utf8_installed_slots(key)])

NextNode ==
  \/ NdWrite
  \/ NdRead
  \/ NdValue
  \/ NdNullify
  \/ NdOther
  \/ NdInstall

SpecNode == Init /\ [][NextNode]_vars


\* C34: for both node shapes is_null() is true exactly when the node has
\* no accepting value and every transition slot (value keys, EOF, default)
\* is 0, for the map-backed node also after slots were only read through
\* transition(key); nullify() gives a node for which is_null() is true.
C34_IsNull ==
  /\ map_is_null(nd.map) <=> (nd.map.value = NoValue /\ \A key \in NdKeys : map_slot(nd.map, key) = 0)
  /\ sm_is_null(nd.arr) <=> (nd.arr.value = NoValue /\ \A k \in SmSlots : nd.arr.transitions[k] = 0)
  /\ map_is_null(map_nullify(nd.map))
  /\ sm_is_null(sm_nullify(nd.arr))

\* C35: construction and lookup agree on the slot of every byte: the slot
\* written for each byte of an installed scalar is the slot get_transition
\* reads for that byte.
C35_SlotsAgree ==
  \A i \in DOMAIN nd.written :
    nd.written[i] = get_transition_slot(utf8_bytes(nd.scalar)[i])

\* C38: for both node shapes get_transitions() returns exactly the pairs
\* (key, destination) that each_transition() visits: one per non-zero
\* slot, under the slot's own key.
C38_SameTransitions ==
  /\ map_get_transitions(nd.map) = map_each_transition(nd.map)
  /\ map_each_transition(nd.map) = {<<key, map_slot(nd.map, key)>> : key \in {c \in NdKeys : map_slot(nd.map, c) # 0}}
  /\ arr_get_transitions(nd.arr) = arr_each_transition(nd.arr)
  /\ arr_each_transition(nd.arr) = {<<arr_key(k), nd.arr.transitions[k]>> : k \in {c \in SmSlots : nd.arr.transitions[c] # 0}}

\* C39: accepting values compare consistently: x != y is the negation of
\* x == y, so the values of two nodes that differ in the payload or in
\* back_by compare as different, and fusion, which keeps two nodes apart
\* when node.value != other.value, never takes them for duplicates.
C39_ValueComparison ==
  /\ \A x \in NodeValues, y \in NodeValues : node_value_ne(x, y) = ~node_value_eq(x, y)
  /\ nd.arr.value # nd.other => optional_ne(nd.arr.value, nd.other)

----------------------------------------------------------------------------
(* The root specification: one builder, the byte builder or the generic    *)
(* builder, runs a program of its calls, sub-pattern calls and optimize    *)
(* included.  match_many of the byte builder is match followed by          *)
(* match_many_optionally, two calls of the program here.                   *)

MaxRootOps == 3   \* byte-builder calls per program in the root specification

\* the byte builder runs while the generic builder is as constructed, and
\* the other way round
RootByte == nops < MaxRootOps /\ sm_nodes = SmNew.nodes
RootGeneric == m_nodes = NewMachine.nodes

LkMatchDefault == LkBecomes(Returned(sm_match_default(SM)), "match_default")
LkMatchEof == LkBecomes(Returned(sm_match_eof(SM)), "match_eof")
LkOptimize == \E outside \in BOOLEAN : LkBecomes(Returned(sm_optimize(SM, outside)), "optimize")

NextRoot ==
  \/ RootByte /\ MatchSequence
  \/ RootByte /\ MatchAnyOf
  \/ RootByte /\ MatchAny
  \/ RootByte /\ MatchEof
  \/ RootByte /\ MatchDefault
  \/ RootByte /\ Terminal
  \/ RootByte /\ Goback
  \/ RootByte /\ Match
  \/ RootByte /\ MatchOptionally
  \/ RootByte /\ MatchManyOptionally
  \/ RootByte /\ Optimize
  \/ RootGeneric /\ LkRoot
  \/ RootGeneric /\ LkMatchSequence
  \/ RootGeneric /\ LkExitPoint
  \/ RootGeneric /\ LkMatch
  \/ RootGeneric /\ LkMatchManyOptionally
  \/ RootGeneric /\ LkMatchDefault
  \/ RootGeneric /\ LkMatchEof
  \/ RootGeneric /\ LkOptimize

SpecRoot == Init /\ [][NextRoot]_vars

\* C37: no transition of any node targets the root, handle 1, whatever
\* builder calls were made (match, match_many_optionally and optimize
\* included), in the byte builder and in the generic builder.
C37_NoEdgeToRoot ==
  /\ \A h \in DOMAIN m_nodes : \A k \in DOMAIN m_nodes[h].transitions : m_nodes[h].transitions[k] # 1
  /\ \A h \in DOMAIN sm_nodes : \A k \in SmSlots : sm_nodes[h].transitions[k] # 1

\* the generic builder ran optimize on a store with a cycle made by
\* match_many_optionally, and the cycle is still there
C37_Witness ==
  /\ last = "optimize" /\ ~sm_failed
  /\ Len(sm_nodes) > 1
  /\ \E h \in DOMAIN sm_nodes, k \in SmSlots :
       sm_nodes[h].transitions[k] # 0 /\ sm_nodes[h].transitions[k] <= h

====
